---- MODULE Spec2Model ----
(***************************************************************************)
(* Model of the server-commands htmx extension                             *)
(* (src/src/server-commands/server-commands.js).                           *)
(*                                                                         *)
(* A response is the sequence of its top-level <htmx> markers.  One action *)
(* of the model is one run-to-completion segment of JavaScript: the        *)
(* synchronous part of transformResponse, a continuation resumed after an  *)
(* await (a microtask), or a timer / view-transition / fetch callback (a   *)
(* macrotask).  Macrotasks run only when no microtask is ready.            *)
(***************************************************************************)
EXTENDS Integers, Sequences, FiniteSets, TLC

\* Largest number of top-level markers in one response.
MaxMarkers == 2

\* Identities of the responses whose processing may overlap.
Resps == {1, 2}

\* Values of a swap: / settle: modifier: no delay, or a positive delay.
Delays == {0, 1}

VALID_COMMAND_ATTRIBUTES ==
    {"target", "swap", "select", "redirect", "refresh", "location",
     "push-url", "replace-url", "trigger", "trigger-after-swap",
     "trigger-after-settle"}

\* An attribute name outside the grammar.
UnknownAttributes == {"foo"}

\* The document holds one element, id "t"; its content is named by the
\* marker <<r, i>> whose payload was swapped in; <<0, 0>> is the original.
OriginalContent == <<0, 0>>

\* A marker.  attrs: attribute names present.  target: value of the target
\* attribute ("#t" matches the element, "#missing" matches nothing, "[["
\* is not a selector, "" is the empty value).  swapDelay, settleDelay,
\* transition: the swap specification resolved from the swap attribute.
\* swapThrows: the DOM swap of this payload raises (e.g. select="[[").
\* refresh: value of the refresh attribute.  location: shape of the
\* location value (bare path, JSON object, JSON object without a path
\* field, text starting with '{' that is not JSON).
Marker(attrs, target, swapDelay, settleDelay, transition, swapThrows, refresh, location) ==
    [attrs |-> attrs, target |-> target, swapDelay |-> swapDelay,
     settleDelay |-> settleDelay, transition |-> transition,
     swapThrows |-> swapThrows, refresh |-> refresh, location |-> location]

Plain(attrs) == Marker(attrs, "#t", 0, 0, FALSE, FALSE, "true", "path")

\* Markers that exercise validation.
GrammarMarkers ==
    {Plain(a) : a \in {{}, {"foo"}, {"swap"}, {"foo", "target", "trigger"},
                       {"select", "trigger"}}}

\* Markers with a swap job, over every timing of swap and settle.
SwapMarkers ==
    {Marker({"target", "swap", "trigger-after-swap", "trigger-after-settle"},
            "#t", sd, td, vt, FALSE, "true", "path") :
        sd \in Delays, td \in Delays, vt \in BOOLEAN}
    \cup
    {Marker({"target", "swap", "select", "trigger"}, "#t", sd, 0, vt, TRUE, "true", "path") :
        sd \in Delays, vt \in BOOLEAN}

\* Markers whose target does not give a swap job.
TargetMarkers ==
    {Marker({"target", "trigger-after-swap", "trigger"}, t, 0, 0, FALSE, FALSE, "true", "path") :
        t \in {"#missing", "[[", ""}}
    \cup
    {Marker({"target", "trigger-after-swap", "trigger-after-settle", "trigger",
             "location", "push-url", "replace-url"},
            "#missing", 0, 0, FALSE, FALSE, "true", "path")}

\* Markers of the immediate phase.
ImmediateMarkers ==
    {Plain(a) : a \in {{"trigger"}, {"location"},
                       {"redirect", "push-url", "replace-url"},
                       {"refresh", "push-url", "replace-url"},
                       {"push-url", "replace-url"},
                       {"trigger", "location", "push-url", "replace-url"},
                       {"trigger-after-swap", "trigger-after-settle"},
                       {"target", "trigger", "location", "push-url"}}}
    \cup {Marker({"refresh", "push-url", "replace-url"}, "#t", 0, 0, FALSE, FALSE, "false", "path"),
          Marker({"location", "push-url"}, "#t", 0, 0, FALSE, FALSE, "true", "json"),
          Marker({"location", "push-url"}, "#t", 0, 0, FALSE, FALSE, "true", "badjson"),
          Marker({"location"}, "#t", 0, 0, FALSE, FALSE, "true", "nopath")}

MarkerSet == GrammarMarkers \cup SwapMarkers \cup TargetMarkers \cup ImmediateMarkers

\* The responses: every sequence of at most MaxMarkers markers.
Responses == UNION {[1..n -> MarkerSet] : n \in 0..MaxMarkers}

\* A node of the parsed response text, in document order: an <htmx>
\* element with its command, another element, or text. parent is the
\* position of the parent node, 0 for the fragment itself.
Node(kind, parent, m) == [kind |-> kind, parent |-> parent, m |-> m]

Htmx(parent, attrs) == Node("htmx", parent, Plain(attrs))

Other(kind, parent) == Node(kind, parent, Plain({}))

\* Responses whose markers are all children of the fragment.
FlatFragments == {[k \in 1..Len(t) |-> Node("htmx", 0, t[k])] : t \in Responses}

\* Responses with content beside the markers and with <htmx> elements
\* below other elements.
NestedFragments ==
    { <<Htmx(0, {"target", "swap"}), Other("div", 1), Htmx(2, {"trigger"}),
        Htmx(3, {"push-url"}), Other("text", 0), Htmx(0, {"trigger"})>>,
      <<Other("div", 0), Htmx(1, {"trigger"}), Other("text", 1), Htmx(0, {"foo"})>>,
      <<Other("div", 0), Htmx(1, {"redirect"})>>,
      <<Htmx(0, {"trigger"}), Htmx(0, {"target", "swap"}), Other("div", 2),
        Htmx(3, {"trigger"}), Other("text", 3)>>,
      <<Other("text", 0), Other("div", 0), Other("text", 2)>>,
      <<Other("div", 0)>> }

Fragments == FlatFragments \cup NestedFragments

\* The remainder before transformResponse has returned.
NoRemainder == [raw |-> FALSE, nodes |-> << >>]

\* ---------------------------------------------------------------------
\* Trigger values
\* ---------------------------------------------------------------------

MaxLen == 4

MaxKeys == 2

\* The characters of a textual trigger value; "null" stands for the four
\* letters of that word.
NameTokens == {"a", "1", "null"}

TextTokens == NameTokens \cup {" ", ","}

Keys == {"a", "b", "c"}

Selectors == {"#t", "#missing", "[[", ""}

\* A detail object without target field.
NoField == "(absent)"

\* The values of a key of a JSON trigger value: a number, null, or an
\* object with or without target field.
Details ==
    {[kind |-> k, target |-> NoField] : k \in {"number", "null", "object"}}
    \cup {[kind |-> "object", target |-> sel] : sel \in Selectors}

\* api.triggerEvent called without detail.
NoDetail == [kind |-> "undefined", target |-> NoField]

JsonObjects ==
    UNION {{p \in [1..n -> [key : Keys, detail : Details]] :
               \A i, j \in 1..n : i # j => p[i].key # p[j].key} :
           n \in 0..MaxKeys}

detailText(d) ==
    CASE d.kind = "number" -> <<"1">>
      [] d.kind = "null" -> <<"null">>
      [] d.target = NoField -> <<"{", "}">>
      [] OTHER -> <<"{", "target", ":", d.target, "}">>

RECURSIVE pairsText(_)
pairsText(p) ==
    IF p = << >> THEN << >>
    ELSE <<p[1].key, ":">> \o detailText(p[1].detail)
         \o (IF Len(p) = 1 THEN << >> ELSE <<",">> \o pairsText(Tail(p)))

\* The attribute text of a JSON object.
stringify(p) == <<"{">> \o pairsText(p) \o <<"}">>

TextValue(text) == [form |-> "text", text |-> text, pairs |-> << >>]

JsonValue(p) == [form |-> "json", text |-> stringify(p), pairs |-> p]

TriggerValues ==
    {TextValue(text) : text \in UNION {[1..n -> TextTokens] : n \in 0..MaxLen}}
    \cup {JsonValue(p) : p \in JsonObjects}

\* ---------------------------------------------------------------------
\* History
\* ---------------------------------------------------------------------

MaxActs == 3

\* A URL: its path, and whether it carries the parameter
\* org.htmx.cache-buster.
Url(path, buster) == [path |-> path, buster |-> buster]

Urls == {Url("/a", FALSE), Url("/b", FALSE), Url("/a", TRUE)}

\* location.pathname + location.search when the script is loaded.
StartUrl == Url("/", FALSE)

\* Nothing stored under a key of sessionStorage.
NoItem == Url("", FALSE)

\* htmx.config.historyEnabled, htmx.config.getCacheBusterParam, and
\* whether sessionStorage can be written (canAccessLocalStorage).
Configs == [historyEnabled : BOOLEAN, getCacheBusterParam : BOOLEAN,
            storage : BOOLEAN]

\* The history state: the configuration, the entries of window.history,
\* the calls of pushState / replaceState, currentPathForHistory, the item
\* htmx-current-path-for-history, the URLs of the snapshot cache, and the
\* steps performed.
History(config) ==
    [config |-> config, entries |-> <<StartUrl>>, calls |-> << >>,
     currentPathForHistory |-> StartUrl, stored |-> NoItem, cache |-> {},
     acts |-> << >>]

HistorySteps == {"push-url", "replace-url", "location"}

\* ---------------------------------------------------------------------
\* Documents
\* ---------------------------------------------------------------------

\* A node: uid names the node itself, id is its id attribute ("" for
\* none and for text), kids are its child nodes.
Elt(uid, id, kids) == [uid |-> uid, id |-> id, kids |-> kids, text |-> FALSE]

Text(uid) == [Elt(uid, "", << >>) EXCEPT !.text = TRUE]

Html(kids) == Elt("html", "", <<Elt("body", "", kids)>>)

\* The pages: the element with id "t" alone, among siblings, and inside
\* the element with id "u".
Documents ==
    { Html(<<Elt("p1", "t", <<Text("p2")>>)>>),
      Html(<<Elt("p3", "u", << >>), Elt("p1", "t", <<Text("p2")>>), Text("p4")>>),
      Html(<<Elt("p3", "u", <<Text("p4"), Elt("p1", "t", << >>)>>)>>) }

\* The payloads of a marker, as makeFragment parses them.
Payloads ==
    { << >>,
      <<Elt("n1", "t", <<Text("n2")>>)>>,
      <<Elt("n1", "", <<Text("n2")>>)>>,
      <<Text("n1")>>,
      <<Elt("n1", "x", <<Elt("n2", "t", << >>)>>)>>,
      <<Elt("n1", "x", << >>), Text("n2"), Elt("n3", "t", << >>)>>,
      <<Elt("n1", "t", << >>), Elt("n2", "t", << >>)>> }

\* The attribute is not on the marker.
Absent == "(absent)"

SwapValues ==
    {Absent, "", "outerHTML", "innerHTML", "beforebegin", "afterbegin",
     "beforeend", "afterend", "delete", "none"}

TargetValues == {"#t", "#u", "body"}

SelectValues == {Absent, "#t", "#x"}

\* No swap under way.
NoPage ==
    [doc |-> Html(<< >>), target |-> "body", elt |-> Elt("body", "", << >>),
     swap |-> Absent, select |-> Absent, payload |-> << >>, swapped |-> TRUE]

\* The page of the settle model: the element that issued the request
\* (id "u") and two targets.
SettleDocument ==
    Html(<<Elt("p3", "u", << >>), Elt("p1", "t", <<Text("p2")>>), Elt("p5", "v", << >>)>>)

\* The element that issued the request (elt of transformResponse).
ContextElt == "p3"

SettleStyles == {"outerHTML", "innerHTML", "beforeend"}

\* A swap job with the swap specification of its marker.
SwapJob(target, swap, settleDelay, payload) ==
    [target |-> target, swap |-> swap, settleDelay |-> settleDelay,
     payload |-> payload]

\* The swap jobs of the first and of the second marker of a response.
FirstJobs ==
    {SwapJob(tg, sw, td, pl) :
        tg \in {"#t", "#v"}, sw \in SettleStyles, td \in Delays,
        pl \in {<<Elt("n1", "t", << >>), Text("n2")>>,
                <<Elt("n1", "w", <<Elt("n2", "v", << >>)>>)>>}}

SecondJobs ==
    {SwapJob(tg, sw, td, pl) :
        tg \in {"#t", "#v"}, sw \in SettleStyles, td \in Delays,
        pl \in {<<Elt("m1", "v", << >>), Text("m2")>>,
                <<Elt("m1", "w", <<Elt("m2", "t", << >>)>>)>>}}

\* No settle information: no response with swaps under way.
NoSettle ==
    [doc |-> Html(<< >>), jobs |-> << >>, i |-> 0, timer |-> FALSE,
     info |-> [tasks |-> << >>, elts |-> << >>], settling |-> {}, ran |-> << >>]

\* Largest number of saves in a run, and largest
\* htmx.config.historyCacheSize.
MaxSaves == 3

MaxCacheSize == 2

\* A URL given to saveToHistoryCache: a path, with or without a trailing
\* slash.
Path(path, slash) == [path |-> path, slash |-> slash]

Paths == {Path("/a", FALSE), Path("/a", TRUE), Path("/b", FALSE), Path("/c", FALSE),
          Path("/d", FALSE)}

\* No URL.
NoPath == Path("", FALSE)

\* The snapshot cache: the configured size, whether sessionStorage is
\* accessible, the item htmx-history-cache (URLs of the snapshots, oldest
\* first), the item before the last save, the array historyCache at the
\* end of the last save, the failed writes of the last save, the number
\* of saves, the URL of the last save, and the URL of the last save
\* whose write succeeded.
Cache(size, access) ==
    [size |-> size, access |-> access, stored |-> << >>, before |-> << >>,
     list |-> << >>, failed |-> 0, saves |-> 0, last |-> NoPath, written |-> NoPath]

\* No snapshot cache under observation.
NoCache == Cache(0, FALSE)

VARIABLES
    resp,       \* resp[r]: the top-level markers of response r
    pc,         \* pc[r]: where the marker loop of response r stands
    idx,        \* idx[r]: index of the marker started last
    swp,        \* swp[r]: state of the promise swapAsync returned
    fetches,    \* navigation fetches in flight
    dom,        \* content of the element "t"
    curPath,    \* currentPathForHistory
    log,        \* everything done so far, in order
    frag,       \* frag[r]: the parsed text of response r
    rem,        \* rem[r]: what transformResponse returned for response r
    trigger,    \* the trigger value given to handleTriggerAttribute
    fired,      \* the events handleTriggerAttribute fired for it, in order
    hist,       \* window.history and the history state of the extension
    page,       \* a document, and the swap a marker asks for on it
    content,    \* content[r]: the payload of the swap job gathered last
    settle,     \* a document and the settle information of one response
    cache       \* the snapshot cache kept in sessionStorage

vars == <<resp, pc, idx, swp, fetches, dom, curPath, log, frag, rem,
          trigger, fired, hist, page, content, settle, cache>>

\* ---------------------------------------------------------------------
\* The machine state a synchronous segment threads through its statements.
\* out: "run" (still executing), "ret" (returned), "exc" (an exception is
\* propagating).  job: a swap job was gathered.  sw: the promise returned
\* by swapAsync ("none" when swapAsync was not called).
\* ---------------------------------------------------------------------
Machine(l, d, c, f) ==
    [log |-> l, dom |-> d, curPath |-> c, fetches |-> f,
     out |-> "run", job |-> FALSE, sw |-> "none"]

\* One entry of the log: what was done, for marker i of response r; d is
\* the list of validation errors an error event carries.
Entry(r, i, ev, d) == [r |-> r, i |-> i, ev |-> ev, d |-> d]

\* api.triggerEvent / api.triggerErrorEvent, and every other observable
\* effect, appended to the log.
Emit(s, r, i, ev) == [s EXCEPT !.log = Append(@, Entry(r, i, ev, {}))]

\* throw: an exception starts to propagate.
Throw(s, r, i) == [Emit(s, r, i, "throw") EXCEPT !.out = "exc"]

has(m, a) == a \in m.attrs

\* Variant: a marker without any command attribute is not rejected.
validateWithoutEmptyCheck(m) ==
    {<<"invalid-attribute", a>> : a \in m.attrs \ VALID_COMMAND_ATTRIBUTES}
    \cup (IF (has(m, "swap") \/ has(m, "select")) /\ ~has(m, "target")
          THEN {<<"requires-target">>} ELSE {})

\* Variant: swap or select without target is not rejected.
validateWithoutTargetCheck(m) ==
    IF m.attrs \cap VALID_COMMAND_ATTRIBUTES = {}
    THEN {<<"no-command-attributes">>}
    ELSE {<<"invalid-attribute", a>> : a \in m.attrs \ VALID_COMMAND_ATTRIBUTES}

\* Variant: attributes outside the grammar are not rejected.
validateWithoutUnknownCheck(m) ==
    IF m.attrs \cap VALID_COMMAND_ATTRIBUTES = {}
    THEN {<<"no-command-attributes">>}
    ELSE IF (has(m, "swap") \/ has(m, "select")) /\ ~has(m, "target")
         THEN {<<"requires-target">>} ELSE {}

\* validateCommandElement: the set of errors it throws with ({} = valid).
validateCommandElement(m) ==
    IF m.attrs \cap VALID_COMMAND_ATTRIBUTES = {}
    THEN {<<"no-command-attributes">>}
    ELSE {<<"invalid-attribute", a>> : a \in m.attrs \ VALID_COMMAND_ATTRIBUTES}
         \cup (IF (has(m, "swap") \/ has(m, "select")) /\ ~has(m, "target")
               THEN {<<"requires-target">>} ELSE {})

\* String.prototype.trim
RECURSIVE trimStart(_)
trimStart(text) ==
    IF text # << >> /\ Head(text) = " " THEN trimStart(Tail(text)) ELSE text

RECURSIVE trimEnd(_)
trimEnd(text) ==
    IF text # << >> /\ text[Len(text)] = " "
    THEN trimEnd(SubSeq(text, 1, Len(text) - 1)) ELSE text

trim(text) == trimEnd(trimStart(text))

\* String.prototype.split(','): cur is the piece being read.
RECURSIVE split(_, _)
split(text, cur) ==
    IF text = << >> THEN <<cur>>
    ELSE IF Head(text) = "," THEN <<cur>> \o split(Tail(text), << >>)
    ELSE split(Tail(text), Append(cur, Head(text)))

\* A text JSON.parse accepts as a number or as null.
JsonLiteral(text) ==
    \/ text = <<"null">>
    \/ text # << >> /\ \A k \in 1..Len(text) : text[k] = "1"

\* JSON.parse(trigger.value): the keys the for-in loop will visit, or a
\* SyntaxError. A number and null have no keys.
JSONparse(v) ==
    IF v.form = "json" THEN [ok |-> TRUE, pairs |-> v.pairs]
    ELSE [ok |-> JsonLiteral(trim(v.text)), pairs |-> << >>]

Event(name, target, detail) == [name |-> name, target |-> target, detail |-> detail]

\* htmx.find(detail.target), document.body when it finds nothing.
find(sel) == IF sel = "#t" THEN "t" ELSE "body"

\* The body of the for-in loop, for the keys left; threw when htmx.find
\* raised on a selector that is no selector.
RECURSIVE fireEach(_, _)
fireEach(pairs, done) ==
    IF pairs = << >> THEN [fired |-> done, threw |-> FALSE]
    ELSE LET key == pairs[1].key
             detail == pairs[1].detail
         IN  IF detail.kind = "object" /\ detail.target \notin {NoField, ""}
             THEN IF detail.target = "[["
                  THEN [fired |-> done, threw |-> TRUE]
                  ELSE fireEach(Tail(pairs),
                                Append(done, Event(<<key>>, find(detail.target),
                                                   [detail EXCEPT !.target = NoField])))
             ELSE fireEach(Tail(pairs), Append(done, Event(<<key>>, "body", detail)))

\* The catch branch: one event per piece of the text between commas.
fallback(v, done) ==
    done \o [j \in 1..Len(split(v.text, << >>)) |->
                Event(trim(split(v.text, << >>)[j]), "body", NoDetail)]

\* handleTriggerAttribute: the events it fires for trigger value v.
triggerEvents(v) ==
    IF ~JSONparse(v).ok THEN fallback(v, << >>)
    ELSE LET res == fireEach(JSONparse(v).pairs, << >>)
         IN  IF res.threw THEN fallback(v, res.fired) ELSE res.fired

\* Variant: the value is dispatched a second time.
handleTriggerTwice(s, r, i, a) == Emit(Emit(s, r, i, a), r, i, a)

\* handleTriggerAttribute: the dispatch of one trigger value.
handleTriggerAttribute(s, r, i, a) == Emit(s, r, i, a)

\* saveCurrentPageToHistory
saveCurrentPageToHistory(s, r, i) == Emit(s, r, i, "save")

\* pushUrlIntoHistory / replaceUrlInHistory: history entry and current path.
pushUrlIntoHistory(s, r, i, path) ==
    [s EXCEPT !.log = Append(@, Entry(r, i, "push", {path})), !.curPath = path]

replaceUrlInHistory(s, r, i, path) ==
    [s EXCEPT !.log = Append(@, Entry(r, i, "replace", {path})), !.curPath = path]

\* Variant: the path is pushed when the fetch is issued.
handleLocationPushingAtOnce(s, m, r, i) ==
    IF m.location = "badjson"
    THEN Throw(s, r, i)
    ELSE LET s1 == saveCurrentPageToHistory(s, r, i)
             s2 == Emit(s1, r, i, "fetch")
         IN  pushUrlIntoHistory([s2 EXCEPT !.fetches = @ \cup {<<r, i>>}],
                                r, i, "/location")

\* handleLocationAttribute: parse, save the page, issue the fetch.  The
\* promise of the fetch is not returned to the caller.  The path taken
\* from a JSON value is not looked at: without a path field the fetch is
\* issued with an undefined path.
handleLocationAttribute(s, m, r, i) ==
    IF m.location = "badjson"
    THEN Throw(s, r, i)
    ELSE LET s1 == saveCurrentPageToHistory(s, r, i)
             s2 == Emit(s1, r, i, "fetch")
         IN  [s2 EXCEPT !.fetches = @ \cup {<<r, i>>}]

\* doSettle: settle tasks, settling class removed, htmx:afterSettle.
doSettle(s, r, i) == Emit(s, r, i, "settle")

\* The body of doSwap in swapAsync: the DOM mutation, then settle now or
\* on a timer, then resolveSwap(settleDelayPromise).  A promise resolved
\* with a promise adopts it: the promise of swapAsync is fulfilled only
\* when settleDelayPromise is.
innerDoSwap(s, m, r, i) ==
    IF m.swapThrows
    THEN Throw(s, r, i)
    ELSE LET s1 == Emit([s EXCEPT !.dom = <<r, i>>], r, i, "swapApplied")
         IN  IF m.settleDelay > 0
             THEN [s1 EXCEPT !.sw = "settling"]
             ELSE [doSettle(s1, r, i) EXCEPT !.sw = "resolved"]

\* doSwap: wrapped in document.startViewTransition when a transition is on.
doSwap(s, m, r, i) ==
    IF m.transition THEN [s EXCEPT !.sw = "transition"]
    ELSE innerDoSwap(s, m, r, i)

\* swapAsync: the synchronous part, with its try / catch.
swapAsync(s, m, r, i) ==
    LET t == IF m.swapDelay > 0 THEN [s EXCEPT !.sw = "delay"]
             ELSE doSwap(s, m, r, i)
    IN  IF t.out = "exc"
        THEN [Emit(t, r, i, "htmx:swapError") EXCEPT !.out = "run", !.sw = "rejected"]
        ELSE t

\* Variant: a target that matches nothing raises instead of reporting
\* htmx:targetError.
gatherSwapJobsThrowing(s, m, r, i) ==
    IF ~has(m, "target") \/ m.target = "" THEN s
    ELSE IF m.target = "#t" THEN [s EXCEPT !.job = TRUE]
    ELSE Throw(s, r, i)

\* STEP 1 of processCommandFromElement: gather the swap job.
gatherSwapJobs(s, m, r, i) ==
    IF ~has(m, "target") \/ m.target = "" THEN s
    ELSE IF m.target = "[[" THEN Throw(s, r, i)
    ELSE IF m.target = "#t" THEN [s EXCEPT !.job = TRUE]
    ELSE Emit(s, r, i, "htmx:targetError")

\* Variant: shouldSwap is not looked at.
processSwapJobsIgnoringShouldSwap(s, m, r, i, bs) ==
    IF ~s.job THEN s
    ELSE LET s1 == Emit(s, r, i, "htmx:beforeSwap")
         IN  IF bs = "cancel" THEN Emit(s1, r, i, "cancelSwap")
             ELSE IF bs = "noswap"
             THEN swapAsync(Emit(s1, r, i, "shouldSwapFalse"), m, r, i)
             ELSE swapAsync(s1, m, r, i)

\* STEP 2: htmx:beforeSwap, whose listener answers bs, then swapAsync.
processSwapJobs(s, m, r, i, bs) ==
    IF ~s.job THEN s
    ELSE LET s1 == Emit(s, r, i, "htmx:beforeSwap")
         IN  IF bs = "cancel" THEN Emit(s1, r, i, "cancelSwap")
             ELSE IF bs = "noswap" THEN Emit(s1, r, i, "shouldSwapFalse")
             ELSE swapAsync(s1, m, r, i)

\* Variant: the post-command event follows the error event.
catchErrorThenAfter(s, r, i, d) ==
    IF s.out = "exc"
    THEN [s EXCEPT !.log = Append(Append(@, Entry(r, i, "htmx:serverCommandError", d)),
                                  Entry(r, i, "htmx:afterServerCommand", {})),
                   !.out = "ret"]
    ELSE s

\* The catch clause of processCommandFromElement.
catchError(s, r, i, d) ==
    IF s.out = "exc"
    THEN [s EXCEPT !.log = Append(@, Entry(r, i, "htmx:serverCommandError", d)),
                   !.out = "ret"]
    ELSE s

\* Variant: the answer of the pre-command listener is ignored.
cancelsNever(cancel) == FALSE

\* if (api.triggerEvent(..., 'htmx:beforeServerCommand', ...) === false)
\* return: whether the listener's answer ends the processing.  The entry
\* "cancel" of the log is the listener's answer itself.
cancels(cancel) == cancel

\* Variant: nothing of the marker runs before the first await.
processStartDeferred(s, m, r, i, cancel, bs) == s

\* processCommandFromElement up to its first await.
processStart(s, m, r, i, cancel, bs) ==
    LET s0 == Emit(s, r, i, "htmx:beforeServerCommand")
        s1 == IF cancel THEN Emit(s0, r, i, "cancel") ELSE s0
    IN  IF cancels(cancel)
        THEN [s1 EXCEPT !.out = "ret"]
        ELSE LET errs == validateCommandElement(m)
             IN  IF errs # {}
                 THEN catchError(Throw(s1, r, i), r, i, errs)
                 ELSE LET s2 == gatherSwapJobs(s1, m, r, i)
                      IN  IF s2.out = "exc" THEN catchError(s2, r, i, {})
                          ELSE processSwapJobs(s2, m, r, i, bs)

\* Variant: the after-swap steps are skipped for a marker without target.
processAfterSwapOnlyWithTarget(s, m, r, i) ==
    IF ~has(m, "target") THEN s
    ELSE LET s1 == Emit(s, r, i, "htmx:afterSwap")
         IN  IF has(m, "trigger-after-swap")
             THEN Emit(s1, r, i, "trigger-after-swap")
             ELSE s1

\* From the first await to the second: the post-swap notification and
\* trigger-after-swap.
processAfterSwap(s, m, r, i) ==
    LET s1 == Emit(s, r, i, "htmx:afterSwap")
    IN  IF has(m, "trigger-after-swap")
        THEN handleTriggerAttribute(s1, r, i, "trigger-after-swap")
        ELSE s1

\* Variant: the value of refresh is not looked at.
reloadsAlways(m) == has(m, "refresh")

\* Variant: the comparison with "false" is inverted.
reloadsWhenFalse(m) == has(m, "refresh") /\ m.refresh = "false"

\* Whether the refresh step reloads the page.
reloads(m) == has(m, "refresh") /\ m.refresh # "false"

\* Variant: the page is saved once for both history steps.
processHistorySavingOnce(s, m, r, i) ==
    LET s0 == IF has(m, "push-url") \/ has(m, "replace-url")
              THEN saveCurrentPageToHistory(s, r, i) ELSE s
        s1 == IF has(m, "push-url")
              THEN pushUrlIntoHistory(s0, r, i, "/push-url") ELSE s0
        s2 == IF has(m, "replace-url")
              THEN replaceUrlInHistory(s1, r, i, "/replace-url") ELSE s1
    IN  [Emit(s2, r, i, "htmx:afterServerCommand") EXCEPT !.out = "ret"]

\* STEP 6 from push-url on: history mutation and the post-command event.
processHistory(s, m, r, i) ==
    LET s1 == IF has(m, "push-url")
              THEN pushUrlIntoHistory(saveCurrentPageToHistory(s, r, i), r, i, "/push-url")
              ELSE s
        s2 == IF has(m, "replace-url")
              THEN replaceUrlInHistory(saveCurrentPageToHistory(s1, r, i), r, i, "/replace-url")
              ELSE s1
    IN  [Emit(s2, r, i, "htmx:afterServerCommand") EXCEPT !.out = "ret"]

\* From the second await to the end: trigger-after-settle, trigger,
\* location, redirect, refresh, then the history steps.
processAfterSettle(s, m, r, i) ==
    LET s1 == IF has(m, "trigger-after-settle")
              THEN handleTriggerAttribute(s, r, i, "trigger-after-settle") ELSE s
        s2 == IF has(m, "trigger")
              THEN handleTriggerAttribute(s1, r, i, "trigger") ELSE s1
        s3 == IF has(m, "location") THEN handleLocationAttribute(s2, m, r, i) ELSE s2
    IN  IF s3.out = "exc" THEN catchError(s3, r, i, {})
        ELSE IF has(m, "redirect") THEN [Emit(s3, r, i, "redirect") EXCEPT !.out = "ret"]
        ELSE IF reloads(m) THEN [Emit(s3, r, i, "reload") EXCEPT !.out = "ret"]
        ELSE processHistory(s3, m, r, i)

\* ---------------------------------------------------------------------
\* Scheduling
\* ---------------------------------------------------------------------

\* Variant: the promise of swapAsync is fulfilled as soon as the DOM
\* mutation is applied, the settle timer still pending.
swapSettledAtApply(p) == p \in {"none", "resolved", "rejected", "settling"}

\* Variant: the continuation does not wait for the swap timer.
swapSettledWhileDelayed(p) == p \in {"none", "resolved", "rejected", "delay"}

\* await Promise.all(swapPromises): the continuation is ready once the
\* promise of swapAsync is settled (or no swap was started).
swapSettled(p) == p \in {"none", "resolved", "rejected"}

\* Variant: the loop goes on while the swap of a marker is pending.
loopReadyDuringSwap(p) == p \in {"finished", "awaitSwap"}

\* Variant: the loop does not await processCommandFromElement.
loopReadyNoAwait(p) == p \in {"finished", "awaitSwap", "awaitSettle"}

\* for (const el of topLevelCommandElements) { await process... }: the
\* next iteration is ready once the marker started last has finished.
loopReady(p) == p = "finished"

MicrotaskReady(r) ==
    \/ loopReady(pc[r])
    \/ pc[r] = "awaitSwap" /\ swapSettled(swp[r])
    \/ pc[r] = "awaitSettle"

NoMicrotask == \A r \in Resps : ~MicrotaskReady(r)

\* Where the loop stands after marker i of response r has finished.
finished(r, i, text) == IF i < Len(text) THEN "finished" ELSE "done"

\* The state after a segment that ended in machine state s.
Commit(s) ==
    /\ log' = s.log
    /\ dom' = s.dom
    /\ curPath' = s.curPath
    /\ fetches' = s.fetches
    /\ UNCHANGED <<trigger, fired, hist, page, settle, cache>>

Start == Machine(log, dom, curPath, fetches)

BeforeSwapAnswers == {"proceed", "cancel", "noswap"}

\* ---------------------------------------------------------------------
\* Actions
\* ---------------------------------------------------------------------

Init ==
    /\ resp = [r \in Resps |-> << >>]
    /\ pc = [r \in Resps |-> IF r = 1 THEN "idle" ELSE "off"]
    /\ idx = [r \in Resps |-> 0]
    /\ swp = [r \in Resps |-> "none"]
    /\ fetches = {}
    /\ dom = OriginalContent
    /\ curPath = "/"
    /\ log = << >>
    /\ frag = [r \in Resps |-> << >>]
    /\ rem = [r \in Resps |-> NoRemainder]
    /\ trigger = [value |-> TextValue(<< >>), handled |-> TRUE]
    /\ fired = << >>
    /\ hist = History([historyEnabled |-> TRUE, getCacheBusterParam |-> FALSE,
                       storage |-> TRUE])
    /\ page = NoPage
    /\ content = [r \in Resps |-> {}]
    /\ settle = NoSettle
    /\ cache = NoCache

\* fragment.querySelectorAll('htmx'): the positions of the <htmx>
\* elements at any depth, in document order.
allCommandElements(f) ==
    SelectSeq([k \in 1..Len(f) |-> k], LAMBDA k : f[k].kind = "htmx")

\* Variant: every <htmx> element counts as top-level.
isTopLevelAlways(f, k) == TRUE

\* el.parentNode === fragment
isTopLevel(f, k) == f[k].parent = 0

topLevelCommandElements(f) ==
    SelectSeq(allCommandElements(f), LAMBDA k : isTopLevel(f, k))

\* Variant: only the top-level markers are removed.
removedTopLevelOnly(f) ==
    {k \in 1..Len(f) : f[k].kind = "htmx" /\ f[k].parent = 0}

\* allCommandElements.forEach(el => el.remove()): the elements detached.
removedElements(f) ==
    {allCommandElements(f)[j] : j \in 1..Len(allCommandElements(f))}

\* Node k or one of its ancestors was detached from the fragment.
RECURSIVE detached(_, _, _)
detached(f, k, gone) ==
    k \in gone \/ (f[k].parent # 0 /\ detached(f, f[k].parent, gone))

\* Node n is below node k, and neither n nor a node between them was
\* detached.
RECURSIVE within(_, _, _, _)
within(f, n, k, gone) ==
    /\ f[n].parent # 0
    /\ n \notin gone
    /\ (f[n].parent = k \/ within(f, f[n].parent, k, gone))

\* container.innerHTML: the nodes still in the fragment, in document order.
serialize(f, gone) ==
    [raw |-> FALSE,
     nodes |-> SelectSeq([k \in 1..Len(f) |-> k], LAMBDA k : ~detached(f, k, gone))]

\* Variant: only an empty text takes the fast path.
fastPathOnlyEmpty(f) == f = << >>

\* !fragment || !fragment.querySelector('htmx')
fastPath(f) == f = << >> \/ allCommandElements(f) = << >>

\* console.warn when <htmx> elements below the top level exist.
warnNested(s, f, r) ==
    IF Len(allCommandElements(f)) > Len(topLevelCommandElements(f))
    THEN Emit(s, r, 0, "warn") ELSE s

\* Variant: transformResponse does not return while markers are pending.
returnBlocked(s, r, pending) ==
    IF pending THEN s ELSE Emit(s, r, 0, "return")

\* The async function has handed back its promise (pending or not):
\* transformResponse removes the markers, serializes and returns.
returnRemainder(s, r, pending) == Emit(s, r, 0, "return")

\* commandElt.innerHTML: the nodes below node k that are still attached
\* to it.
innerHTML(f, k, gone) == {n \in 1..Len(f) : within(f, n, k, gone)}

\* content: commandElt.innerHTML of the swap job, read when the job is
\* gathered; gone holds the elements detached by then.
jobContent(s, f, k, gone) == IF s.job THEN innerHTML(f, k, gone) ELSE {}

\* transformResponse: the fast path, or the first marker up to its first
\* await, then the removal of the markers and the return of the remainder.
transformResponse(r, texts) ==
    /\ pc[r] = "idle"
    /\ NoMicrotask
    /\ \E f \in texts, cancel \in BOOLEAN, bs \in BeforeSwapAnswers :
        LET top == topLevelCommandElements(f)
            text == [j \in 1..Len(top) |-> f[top[j]].m]
        IN
        /\ frag' = [frag EXCEPT ![r] = f]
        /\ IF fastPath(f)
           THEN /\ resp' = [resp EXCEPT ![r] = << >>]
                /\ UNCHANGED content
                /\ rem' = [rem EXCEPT ![r] =
                              [raw |-> TRUE, nodes |-> [k \in 1..Len(f) |-> k]]]
                /\ pc' = [pc EXCEPT ![r] = "done"]
                /\ Commit(returnRemainder(Start, r, FALSE))
                /\ UNCHANGED <<idx, swp>>
           ELSE /\ resp' = [resp EXCEPT ![r] = text]
                /\ rem' = [rem EXCEPT ![r] = serialize(f, removedElements(f))]
                /\ IF text = << >>
                   THEN /\ pc' = [pc EXCEPT ![r] = "done"]
                        /\ Commit(returnRemainder(warnNested(Start, f, r), r, FALSE))
                        /\ UNCHANGED <<idx, swp, content>>
                   ELSE LET s == processStart(warnNested(Start, f, r), text[1],
                                              r, 1, cancel, bs)
                        IN  /\ Commit(returnRemainder(s, r, s.out # "ret" \/ Len(text) > 1))
                            /\ content' = [content EXCEPT ![r] =
                                              jobContent(s, f, top[1], {})]
                            /\ idx' = [idx EXCEPT ![r] = 1]
                            /\ swp' = [swp EXCEPT ![r] = s.sw]
                            /\ pc' = [pc EXCEPT ![r] =
                                        IF s.out = "ret" THEN finished(r, 1, text)
                                        ELSE "awaitSwap"]

\* A response arrives.
TransformResponse(r) == transformResponse(r, Fragments)

\* The next iteration of the marker loop.
StartMarker(r) ==
    /\ loopReady(pc[r])
    /\ idx[r] < Len(resp[r])
    /\ \E cancel \in BOOLEAN, bs \in BeforeSwapAnswers :
        LET i == idx[r] + 1
            s == processStart(Start, resp[r][i], r, i, cancel, bs)
        IN  /\ Commit(s)
            /\ content' = [content EXCEPT ![r] =
                              jobContent(s, frag[r], topLevelCommandElements(frag[r])[i],
                                         removedElements(frag[r]))]
            /\ idx' = [idx EXCEPT ![r] = i]
            /\ swp' = [swp EXCEPT ![r] = s.sw]
            /\ pc' = [pc EXCEPT ![r] =
                        IF s.out = "ret" THEN finished(r, i, resp[r])
                        ELSE "awaitSwap"]
    /\ UNCHANGED <<frag, rem, resp>>

\* Resumption after await Promise.all(swapPromises).
ResumeAfterSwap(r) ==
    /\ pc[r] = "awaitSwap"
    /\ swapSettled(swp[r])
    /\ LET i == idx[r]
           m == resp[r][i]
       IN  IF swp[r] = "rejected"
           THEN /\ Commit(catchError([Start EXCEPT !.out = "exc"], r, i, {}))
                /\ pc' = [pc EXCEPT ![r] = finished(r, i, resp[r])]
           ELSE /\ Commit(processAfterSwap(Start, m, r, i))
                /\ pc' = [pc EXCEPT ![r] = "awaitSettle"]
    /\ UNCHANGED <<content, frag, rem, resp, idx, swp>>

\* Resumption after await Promise.all(settlePromises.flat()): the values
\* awaited are the fulfilment values of the swap promises, not promises.
ResumeAfterSettle(r) ==
    /\ pc[r] = "awaitSettle"
    /\ LET i == idx[r]
       IN  /\ Commit(processAfterSettle(Start, resp[r][i], r, i))
           /\ pc' = [pc EXCEPT ![r] = finished(r, i, resp[r])]
    /\ UNCHANGED <<content, frag, rem, resp, idx, swp>>

\* A callback run from the event loop: an exception it raises is caught
\* by nobody, and the promise of swapAsync is then never settled.
Callback(s) == IF s.out = "exc" THEN [s EXCEPT !.sw = "stalled"] ELSE s

\* setTimeout(doSwap, swapSpec.swapDelay) fires.
SwapTimer(r) ==
    /\ swp[r] = "delay"
    /\ NoMicrotask
    /\ LET s == Callback(doSwap(Start, resp[r][idx[r]], r, idx[r]))
       IN  /\ Commit(s)
           /\ swp' = [swp EXCEPT ![r] = s.sw]
    /\ UNCHANGED <<content, frag, rem, resp, pc, idx>>

\* The callback given to document.startViewTransition runs.
ViewTransition(r) ==
    /\ swp[r] = "transition"
    /\ NoMicrotask
    /\ LET s == Callback(innerDoSwap(Start, resp[r][idx[r]], r, idx[r]))
       IN  /\ Commit(s)
           /\ swp' = [swp EXCEPT ![r] = s.sw]
    /\ UNCHANGED <<content, frag, rem, resp, pc, idx>>

\* The settle timer fires: doSettle(); resolve().
SettleTimer(r) ==
    /\ swp[r] = "settling"
    /\ NoMicrotask
    /\ Commit(doSettle(Start, r, idx[r]))
    /\ swp' = [swp EXCEPT ![r] = "resolved"]
    /\ UNCHANGED <<content, frag, rem, resp, pc, idx>>

\* The navigation fetch of a location attribute completes: .then pushes
\* the path.
FetchComplete(f) ==
    /\ f \in fetches
    /\ NoMicrotask
    /\ LET s == pushUrlIntoHistory(Emit(Start, f[1], f[2], "fetchDone"),
                                   f[1], f[2], "/location")
       IN  Commit([s EXCEPT !.fetches = @ \ {f}])
    /\ UNCHANGED <<content, frag, rem, resp, pc, idx, swp>>

\* The navigation fetch fails: the rejection has no handler.
FetchFail(f) ==
    /\ f \in fetches
    /\ NoMicrotask
    /\ Commit([Emit(Start, f[1], f[2], "fetchFailed") EXCEPT !.fetches = @ \ {f}])
    /\ UNCHANGED <<content, frag, rem, resp, pc, idx, swp>>

Next ==
    \/ \E r \in Resps : TransformResponse(r)
    \/ \E r \in Resps : StartMarker(r)
    \/ \E r \in Resps : ResumeAfterSwap(r)
    \/ \E r \in Resps : ResumeAfterSettle(r)
    \/ \E r \in Resps : SwapTimer(r)
    \/ \E r \in Resps : ViewTransition(r)
    \/ \E r \in Resps : SettleTimer(r)
    \/ \E f \in fetches : FetchComplete(f)
    \/ \E f \in fetches : FetchFail(f)

Spec == Init /\ [][Next]_vars

\* ---------------------------------------------------------------------
\* Two responses at a time
\* ---------------------------------------------------------------------

\* Markers that suspend their pipeline (swap delay and settle delay, view
\* transition, navigation fetch) and one that does not.
OverlapMarkers ==
    {Marker({"target", "swap", "trigger-after-swap", "trigger-after-settle"},
            "#t", 1, 1, FALSE, FALSE, "true", "path"),
     Marker({"target", "swap", "trigger-after-swap", "trigger-after-settle"},
            "#t", 0, 0, TRUE, FALSE, "true", "path"),
     Plain({"trigger", "location", "push-url", "replace-url"})}

\* Responses of two top-level markers.
OverlapFragments ==
    {<<Node("htmx", 0, m1), Node("htmx", 0, m2)>> :
        m1 \in OverlapMarkers, m2 \in OverlapMarkers}

\* Both requests are in flight.
InitOverlap ==
    /\ resp = [r \in Resps |-> << >>]
    /\ pc = [r \in Resps |-> "idle"]
    /\ idx = [r \in Resps |-> 0]
    /\ swp = [r \in Resps |-> "none"]
    /\ fetches = {}
    /\ dom = OriginalContent
    /\ curPath = "/"
    /\ log = << >>
    /\ frag = [r \in Resps |-> << >>]
    /\ rem = [r \in Resps |-> NoRemainder]
    /\ trigger = [value |-> TextValue(<< >>), handled |-> TRUE]
    /\ fired = << >>
    /\ hist = History([historyEnabled |-> TRUE, getCacheBusterParam |-> FALSE,
                       storage |-> TRUE])
    /\ page = NoPage
    /\ content = [r \in Resps |-> {}]
    /\ settle = NoSettle
    /\ cache = NoCache

\* A response arrives while the other may be under way.
OverlapResponse(r) == transformResponse(r, OverlapFragments)

NextOverlap ==
    \/ \E r \in Resps : OverlapResponse(r)
    \/ \E r \in Resps : StartMarker(r)
    \/ \E r \in Resps : ResumeAfterSwap(r)
    \/ \E r \in Resps : ResumeAfterSettle(r)
    \/ \E r \in Resps : SwapTimer(r)
    \/ \E r \in Resps : ViewTransition(r)
    \/ \E r \in Resps : SettleTimer(r)
    \/ \E f \in fetches : FetchComplete(f)
    \/ \E f \in fetches : FetchFail(f)

SpecOverlap == InitOverlap /\ [][NextOverlap]_vars

\* ---------------------------------------------------------------------
\* handleTriggerAttribute on its own
\* ---------------------------------------------------------------------

InitTrigger ==
    /\ resp = [r \in Resps |-> << >>]
    /\ pc = [r \in Resps |-> "off"]
    /\ idx = [r \in Resps |-> 0]
    /\ swp = [r \in Resps |-> "none"]
    /\ fetches = {}
    /\ dom = OriginalContent
    /\ curPath = "/"
    /\ log = << >>
    /\ frag = [r \in Resps |-> << >>]
    /\ rem = [r \in Resps |-> NoRemainder]
    /\ trigger \in [value : TriggerValues, handled : {FALSE}]
    /\ fired = << >>
    /\ hist = History([historyEnabled |-> TRUE, getCacheBusterParam |-> FALSE,
                       storage |-> TRUE])
    /\ page = NoPage
    /\ content = [r \in Resps |-> {}]
    /\ settle = NoSettle
    /\ cache = NoCache

HandleTrigger ==
    /\ ~trigger.handled
    /\ fired' = triggerEvents(trigger.value)
    /\ trigger' = [trigger EXCEPT !.handled = TRUE]
    /\ UNCHANGED <<resp, pc, idx, swp, fetches, dom, curPath, log, frag, rem, hist,
                   page, content, settle, cache>>

NextTrigger == HandleTrigger

SpecTrigger == InitTrigger /\ [][NextTrigger]_vars

\* ---------------------------------------------------------------------
\* The history steps on their own
\* ---------------------------------------------------------------------

\* path.replace(/org\.htmx\.cache-buster=[^&]*&?/, '') and the removal of
\* a trailing '&' or '?'.
withoutCacheBuster(url) == [url EXCEPT !.buster = FALSE]

\* Variant: the current path is kept only in sessionStorage.
setCurrentPathInStorageOnly(h, url) ==
    IF h.config.storage THEN [h EXCEPT !.stored = url] ELSE h

setCurrentPathForHistory(h, url) ==
    [h EXCEPT !.currentPathForHistory = url,
              !.stored = IF h.config.storage THEN url ELSE @]

\* history.pushState, if history is enabled.
pushState(h, url) ==
    IF h.config.historyEnabled
    THEN [h EXCEPT !.entries = Append(@, url),
                   !.calls = Append(@, "pushState")]
    ELSE h

\* history.replaceState, if history is enabled.
replaceState(h, url) ==
    IF h.config.historyEnabled
    THEN [h EXCEPT !.entries[Len(h.entries)] = url,
                   !.calls = Append(@, "replaceState")]
    ELSE h

\* saveCurrentPageToHistory: the snapshot is stored under the current
\* path, and the entry of the page is replaced by itself.
saveCurrentPage(h) ==
    LET path == IF h.config.storage THEN h.stored ELSE h.currentPathForHistory
        url == IF path = NoItem THEN h.entries[Len(h.entries)] ELSE path
        h1 == IF h.config.storage THEN [h EXCEPT !.cache = @ \cup {url}] ELSE h
    IN  replaceState(h1, h1.entries[Len(h1.entries)])

\* pushUrlIntoHistory
pushUrl(h, url) ==
    LET path == IF h.config.getCacheBusterParam THEN withoutCacheBuster(url)
                ELSE url
    IN  setCurrentPathForHistory(pushState(h, path), path)

\* replaceUrlInHistory
replaceUrl(h, url) == setCurrentPathForHistory(replaceState(h, url), url)

Did(h, step, url) == [h EXCEPT !.acts = Append(@, [step |-> step, url |-> url])]

InitHistory ==
    /\ resp = [r \in Resps |-> << >>]
    /\ pc = [r \in Resps |-> "off"]
    /\ idx = [r \in Resps |-> 0]
    /\ swp = [r \in Resps |-> "none"]
    /\ fetches = {}
    /\ dom = OriginalContent
    /\ curPath = "/"
    /\ log = << >>
    /\ frag = [r \in Resps |-> << >>]
    /\ rem = [r \in Resps |-> NoRemainder]
    /\ trigger = [value |-> TextValue(<< >>), handled |-> TRUE]
    /\ fired = << >>
    /\ hist \in {History(config) : config \in Configs}
    /\ page = NoPage
    /\ content = [r \in Resps |-> {}]
    /\ settle = NoSettle
    /\ cache = NoCache

Others == <<resp, pc, idx, swp, fetches, dom, curPath, log, frag, rem,
            trigger, fired, page, content, settle, cache>>

\* The push-url step of a marker.
PushUrl(url) ==
    /\ Len(hist.acts) < MaxActs
    /\ hist' = Did(pushUrl(saveCurrentPage(hist), url), "push-url", url)
    /\ UNCHANGED Others

\* The replace-url step of a marker.
ReplaceUrl(url) ==
    /\ Len(hist.acts) < MaxActs
    /\ hist' = Did(replaceUrl(saveCurrentPage(hist), url), "replace-url", url)
    /\ UNCHANGED Others

\* The fetch of a location step has completed.
LocationDone(url) ==
    /\ Len(hist.acts) < MaxActs
    /\ hist' = Did(pushUrl(hist, url), "location", url)
    /\ UNCHANGED Others

NextHistory ==
    \E url \in Urls :
        \/ PushUrl(url)
        \/ ReplaceUrl(url)
        \/ LocationDone(url)

SpecHistory == InitHistory /\ [][NextHistory]_vars

\* ---------------------------------------------------------------------
\* The DOM mutation of a swap on its own
\* ---------------------------------------------------------------------

NoNode == Elt("", "", << >>)

\* querySelector('#id') / getElementById below the given nodes: the first
\* match in document order, NoNode for none.
RECURSIVE findIn(_, _)
findIn(nodes, id) ==
    IF nodes = << >> THEN NoNode
    ELSE IF nodes[1].id = id THEN nodes[1]
    ELSE IF findIn(nodes[1].kids, id) # NoNode THEN findIn(nodes[1].kids, id)
    ELSE findIn(Tail(nodes), id)

\* querySelector('body')
RECURSIVE findUid(_, _)
findUid(nodes, uid) ==
    IF nodes = << >> THEN NoNode
    ELSE IF nodes[1].uid = uid THEN nodes[1]
    ELSE IF findUid(nodes[1].kids, uid) # NoNode THEN findUid(nodes[1].kids, uid)
    ELSE findUid(Tail(nodes), uid)

\* htmx.find(commandTargetSelector)
findTarget(doc, sel) ==
    CASE sel = "body" -> findUid(<<doc>>, "body")
      [] sel = "#t" -> findIn(<<doc>>, "t")
      [] sel = "#u" -> findIn(<<doc>>, "u")
      [] sel = "#v" -> findIn(<<doc>>, "v")
      [] OTHER -> findIn(<<doc>>, "x")

\* fragment.querySelectorAll(select): every match, in document order.
RECURSIVE findAll(_, _)
findAll(nodes, id) ==
    IF nodes = << >> THEN << >>
    ELSE (IF nodes[1].id = id THEN <<nodes[1]>> ELSE << >>)
         \o findAll(nodes[1].kids, id) \o findAll(Tail(nodes), id)

\* The fragment swapped in: the payload, or what select takes from it.
selected(payload, select) ==
    CASE select = Absent -> payload
      [] select = "#t" -> findAll(payload, "t")
      [] OTHER -> findAll(payload, "x")

\* commandElt.getAttribute('swap') || 'outerHTML'
commandSwapStyle(swap) == IF swap \in {Absent, ""} THEN "outerHTML" ELSE swap

\* Variant: the new nodes are inserted and the target stays.
swapOuterHTMLKeepingTarget(target, fragment) == fragment \o <<target>>

\* swapOuterHTML on a target that is not the body: what stands in the
\* place of the target among its siblings.
swapOuterHTML(target, fragment) == fragment

\* swapWithStyle, the styles that change the siblings of the target.
inPlaceOf(style, target, fragment) ==
    CASE style = "outerHTML" /\ target.uid # "body" -> swapOuterHTML(target, fragment)
      [] style = "beforebegin" -> fragment \o <<target>>
      [] style = "afterend" -> <<target>> \o fragment
      [] style = "delete" -> << >>
      [] OTHER -> <<target>>

\* swapWithStyle, the styles that change the children of the target;
\* outerHTML on the body is innerHTML.
childrenOf(style, target, fragment) ==
    CASE style = "innerHTML" \/ (style = "outerHTML" /\ target.uid = "body") -> fragment
      [] style = "afterbegin" -> fragment \o target.kids
      [] style = "beforeend" -> target.kids \o fragment
      [] OTHER -> target.kids

\* The nodes after the swap on the node with the given uid.
RECURSIVE swapWithStyle(_, _, _, _)
swapWithStyle(nodes, uid, style, fragment) ==
    IF nodes = << >> THEN << >>
    ELSE LET node == nodes[1]
             rest == swapWithStyle(Tail(nodes), uid, style, fragment)
         IN  IF node.uid = uid
             THEN inPlaceOf(style, [node EXCEPT !.kids = childrenOf(style, node, fragment)],
                            fragment) \o rest
             ELSE <<[node EXCEPT !.kids = swapWithStyle(node.kids, uid, style, fragment)]>>
                  \o rest

RECURSIVE Uids(_)
Uids(nodes) ==
    IF nodes = << >> THEN {}
    ELSE {nodes[1].uid} \cup Uids(nodes[1].kids) \cup Uids(Tail(nodes))

InitSwap ==
    /\ resp = [r \in Resps |-> << >>]
    /\ pc = [r \in Resps |-> "off"]
    /\ idx = [r \in Resps |-> 0]
    /\ swp = [r \in Resps |-> "none"]
    /\ fetches = {}
    /\ dom = OriginalContent
    /\ curPath = "/"
    /\ log = << >>
    /\ frag = [r \in Resps |-> << >>]
    /\ rem = [r \in Resps |-> NoRemainder]
    /\ trigger = [value |-> TextValue(<< >>), handled |-> TRUE]
    /\ fired = << >>
    /\ hist = History([historyEnabled |-> TRUE, getCacheBusterParam |-> FALSE,
                       storage |-> TRUE])
    /\ content = [r \in Resps |-> {}]
    /\ settle = NoSettle
    /\ cache = NoCache
    /\ page \in {pg \in [doc : Documents, target : TargetValues,
                         elt : {findTarget(doc, target) :
                                    doc \in Documents, target \in TargetValues},
                         swap : SwapValues, select : SelectValues,
                         payload : Payloads, swapped : {FALSE}] :
                    /\ pg.elt = findTarget(pg.doc, pg.target)
                    /\ pg.elt # NoNode}

\* The DOM mutation of doSwap for a marker whose target resolved.
DoSwap ==
    /\ ~page.swapped
    /\ page' = [page EXCEPT
                   !.doc = swapWithStyle(<<page.doc>>, page.elt.uid,
                                         commandSwapStyle(page.swap),
                                         selected(page.payload, page.select))[1],
                   !.swapped = TRUE]
    /\ UNCHANGED <<resp, pc, idx, swp, fetches, dom, curPath, log, frag, rem,
                   trigger, fired, hist, content, settle, cache>>

NextSwap == DoSwap

SpecSwap == InitSwap /\ [][NextSwap]_vars

\* ---------------------------------------------------------------------
\* Swap and settle of the markers of one response, with the settle
\* information they share
\* ---------------------------------------------------------------------

\* api.makeSettleInfo(elt)
makeSettleInfo(elt) == [tasks |-> << >>, elts |-> <<elt>>]

\* parentElt(target): the node whose children hold the node uid.
RECURSIVE parentElt(_, _)
parentElt(nodes, uid) ==
    IF nodes = << >> THEN NoNode
    ELSE IF \E k \in 1..Len(nodes[1].kids) : nodes[1].kids[k].uid = uid THEN nodes[1]
    ELSE IF parentElt(nodes[1].kids, uid) # NoNode THEN parentElt(nodes[1].kids, uid)
    ELSE parentElt(Tail(nodes), uid)

\* fragment.querySelectorAll('[id]'), in document order.
RECURSIVE withId(_)
withId(nodes) ==
    IF nodes = << >> THEN << >>
    ELSE (IF nodes[1].id # "" THEN <<nodes[1]>> ELSE << >>)
         \o withId(nodes[1].kids) \o withId(Tail(nodes))

Task(kind, uid) == [kind |-> kind, uid |-> uid]

\* handleAttributes: one task per new node whose id is the id of a node
\* below parentNode.
handleAttributes(parentNode, fragment) ==
    LET new == SelectSeq(withId(fragment),
                         LAMBDA n : findIn(parentNode.kids, n.id) # NoNode)
    IN  [k \in 1..Len(new) |-> Task("attrs", new[k].uid)]

\* The elements among the children of the fragment.
elements(fragment) == SelectSeq(fragment, LAMBDA n : ~n.text)

\* insertNodesBefore: the tasks it queues (the nodes themselves are
\* inserted by swapWithStyle).
insertNodesBefore(parentNode, fragment, tasks) ==
    tasks \o handleAttributes(parentNode, fragment)
          \o [k \in 1..Len(elements(fragment)) |->
                 Task("load", elements(fragment)[k].uid)]

\* What the swap of one style does to settleInfo.
settleInfoAfter(info, doc, style, target, fragment) ==
    CASE style = "outerHTML" ->
            [tasks |-> insertNodesBefore(parentElt(<<doc>>, target.uid), fragment,
                                         info.tasks),
             elts |-> SelectSeq(info.elts, LAMBDA e : e # target.uid)
                      \o [k \in 1..Len(elements(fragment)) |->
                             elements(fragment)[k].uid]]
      [] style = "innerHTML" ->
            [tasks |-> insertNodesBefore(target, fragment, info.tasks),
             elts |-> IF \E k \in 1..Len(info.elts) : info.elts[k] = target.uid
                      THEN info.elts ELSE Append(info.elts, target.uid)]
      [] OTHER ->
            [tasks |-> insertNodesBefore(target, fragment, info.tasks),
             elts |-> info.elts]

\* Variant: the settling class is not put on the elements.
settlingClassNotAdded(elts, settling) == settling

\* forEach(settleInfo.elts, elt => elt.classList.add(settlingClass))
settlingClassAdded(elts, settling) ==
    settling \cup {elts[k] : k \in 1..Len(elts)}

Ran(by, kind, uid) == [by |-> by, kind |-> kind, uid |-> uid]

\* doSettle: every task of settleInfo is called, then the settling class
\* is taken off every element of settleInfo and htmx:afterSettle fired
\* on it.
doSettleOn(st) ==
    [st EXCEPT
       !.ran = @ \o [k \in 1..Len(st.info.tasks) |->
                        Ran(st.i, st.info.tasks[k].kind, st.info.tasks[k].uid)]
                 \o [k \in 1..Len(st.info.elts) |->
                        Ran(st.i, "htmx:afterSettle", st.info.elts[k])],
       !.settling = @ \ {st.info.elts[k] : k \in 1..Len(st.info.elts)},
       !.timer = FALSE]

\* doSwap for swap job i: the DOM mutation, the settling class, then the
\* settle at once or on a timer.  A job whose target matches no element
\* is not gathered.
doSwapOn(st, i) ==
    LET job == st.jobs[i]
        target == findTarget(st.doc, job.target)
    IN  IF target = NoNode THEN [st EXCEPT !.i = i]
        ELSE LET info == settleInfoAfter(st.info, st.doc, job.swap, target, job.payload)
                 s1 == [st EXCEPT
                          !.i = i,
                          !.doc = swapWithStyle(<<st.doc>>, target.uid, job.swap,
                                                job.payload)[1],
                          !.info = info,
                          !.settling = settlingClassAdded(info.elts, @)]
             IN  IF job.settleDelay > 0 THEN [s1 EXCEPT !.timer = TRUE]
                 ELSE doSettleOn(s1)

InitSettle ==
    /\ resp = [r \in Resps |-> << >>]
    /\ pc = [r \in Resps |-> "off"]
    /\ idx = [r \in Resps |-> 0]
    /\ swp = [r \in Resps |-> "none"]
    /\ fetches = {}
    /\ dom = OriginalContent
    /\ curPath = "/"
    /\ log = << >>
    /\ frag = [r \in Resps |-> << >>]
    /\ rem = [r \in Resps |-> NoRemainder]
    /\ trigger = [value |-> TextValue(<< >>), handled |-> TRUE]
    /\ fired = << >>
    /\ hist = History([historyEnabled |-> TRUE, getCacheBusterParam |-> FALSE,
                       storage |-> TRUE])
    /\ page = NoPage
    /\ content = [r \in Resps |-> {}]
    /\ cache = NoCache
    /\ \E jobs \in {<<j1>> : j1 \in FirstJobs}
                    \cup {<<j1, j2>> : j1 \in FirstJobs, j2 \in SecondJobs} :
           settle = [doc |-> SettleDocument, jobs |-> jobs, i |-> 0, timer |-> FALSE,
                     info |-> makeSettleInfo(ContextElt), settling |-> {},
                     ran |-> << >>]

\* The swap of the next marker is applied: markers run one after the
\* other, each after the settle of the one before.
ApplySwap ==
    /\ ~settle.timer
    /\ settle.i < Len(settle.jobs)
    /\ settle' = doSwapOn(settle, settle.i + 1)
    /\ UNCHANGED <<resp, pc, idx, swp, fetches, dom, curPath, log, frag, rem,
                   trigger, fired, hist, page, content, cache>>

\* The settle timer fires.
SettleTimerFires ==
    /\ settle.timer
    /\ settle' = doSettleOn(settle)
    /\ UNCHANGED <<resp, pc, idx, swp, fetches, dom, curPath, log, frag, rem,
                   trigger, fired, hist, page, content, cache>>

NextSettle == ApplySwap \/ SettleTimerFires

SpecSettle == InitSettle /\ [][NextSettle]_vars

\* ---------------------------------------------------------------------
\* The snapshot cache on its own
\* ---------------------------------------------------------------------

\* normalizePath: pathname + search, without trailing slashes.
normalizePath(url) == [url EXCEPT !.slash = FALSE]

\* Variant: an entry of the same URL is left in the array.
spliceNothing(historyCache, url) == historyCache

\* The loop that removes the entry of the same URL.
splice(historyCache, url) == SelectSeq(historyCache, LAMBDA u : u # url)

\* while (historyCache.length > historyCacheSize) historyCache.shift()
RECURSIVE shiftTo(_, _)
shiftTo(historyCache, size) ==
    IF Len(historyCache) > size THEN shiftTo(Tail(historyCache), size)
    ELSE historyCache

\* The write loop: setItem throws fails times in a row; after each throw
\* the oldest entry is dropped; the loop ends when a write succeeds or
\* the array is empty.
RECURSIVE writeLoop(_, _, _)
writeLoop(historyCache, fails, failed) ==
    IF historyCache = << >> THEN [list |-> << >>, failed |-> failed]
    ELSE IF fails = 0 THEN [list |-> historyCache, failed |-> failed]
    ELSE writeLoop(Tail(historyCache), fails - 1, failed + 1)

\* saveToHistoryCache(url, rootElt), with sessionStorage refusing the
\* first fails writes.
saveToHistoryCache(c, url, fails) ==
    LET c0 == [c EXCEPT !.saves = @ + 1, !.last = url, !.before = c.stored,
                        !.list = << >>, !.failed = 0]
    IN  IF ~c.access THEN c0
        ELSE IF c.size <= 0 THEN [c0 EXCEPT !.stored = << >>]
        ELSE LET pushed == Append(splice(c.stored, normalizePath(url)),
                                  normalizePath(url))
                 res == writeLoop(shiftTo(pushed, c.size), fails, 0)
             IN  [c0 EXCEPT !.list = res.list,
                            !.failed = res.failed,
                            !.stored = IF res.list # << >> THEN res.list ELSE @,
                            !.written = IF res.list # << >> THEN url ELSE @]

InitCache ==
    /\ resp = [r \in Resps |-> << >>]
    /\ pc = [r \in Resps |-> "off"]
    /\ idx = [r \in Resps |-> 0]
    /\ swp = [r \in Resps |-> "none"]
    /\ fetches = {}
    /\ dom = OriginalContent
    /\ curPath = "/"
    /\ log = << >>
    /\ frag = [r \in Resps |-> << >>]
    /\ rem = [r \in Resps |-> NoRemainder]
    /\ trigger = [value |-> TextValue(<< >>), handled |-> TRUE]
    /\ fired = << >>
    /\ hist = History([historyEnabled |-> TRUE, getCacheBusterParam |-> FALSE,
                       storage |-> TRUE])
    /\ page = NoPage
    /\ content = [r \in Resps |-> {}]
    /\ settle = NoSettle
    /\ cache \in {Cache(size, access) : size \in 0..MaxCacheSize, access \in BOOLEAN}

\* saveCurrentPageToHistory saves the snapshot of the current path.
Save(url, fails) ==
    /\ cache.saves < MaxSaves
    /\ cache' = saveToHistoryCache(cache, url, fails)
    /\ UNCHANGED <<resp, pc, idx, swp, fetches, dom, curPath, log, frag, rem,
                   trigger, fired, hist, page, content, settle>>

NextCache == \E url \in Paths, fails \in 0..(MaxCacheSize + 1) : Save(url, fails)

SpecCache == InitCache /\ [][NextCache]_vars

\* The marker's swap style is outerHTML, given or by default, and its
\* swap is done.
OuterHTMLDone == page.swapped /\ page # NoPage /\ page.swap \in {Absent, "outerHTML"}

\* The old element is gone, and its id finds a node of the payload.
Replaced ==
    /\ page.elt.uid \notin Uids(<<page.doc>>)
    /\ findIn(<<page.doc>>, page.elt.id).uid \in Uids(page.payload)

\* C26 as stated: after an outerHTML swap on an existing target the old
\* element is no longer in the document and a lookup by its id finds
\* content of the payload.
C26_OuterHTML == OuterHTMLDone => Replaced

\* C26, amended: after an outerHTML swap on an existing target that is
\* not the body, with an element of the target's id among the content
\* taken from the payload, the old element is no longer in the document
\* and a lookup by its id finds that content.
C26_OuterHTMLWithId ==
    (/\ OuterHTMLDone
     /\ page.elt.uid # "body"
     /\ findIn(selected(page.payload, page.select), page.elt.id) # NoNode)
    => Replaced

\* An element nested in the page was replaced by a payload that select
\* narrowed to the element with its id.
C26_Witness ==
    /\ OuterHTMLDone
    /\ page.swap = Absent
    /\ page.select = "#t"
    /\ page.elt.uid = "p1"
    /\ Len(page.payload) = 3
    /\ Replaced
    /\ findIn(<<page.doc>>, "t").uid = "n3"

\* ---------------------------------------------------------------------
\* Reading the log
\* ---------------------------------------------------------------------

\* Positions of the log where ev was done for marker i of response r.
Pos(r, i, ev) ==
    {k \in 1..Len(log) : log[k].r = r /\ log[k].i = i /\ log[k].ev = ev}

Has(r, i, ev) == Pos(r, i, ev) # {}

\* Everything done for marker i of response r.
EventsOf(r, i) ==
    {log[k].ev : k \in {j \in 1..Len(log) : log[j].r = r /\ log[j].i = i}}

\* ev was done for marker i of response r before position k.
Before(r, i, ev, k) == \E j \in Pos(r, i, ev) : j < k

\* The history mutation of a push-url / replace-url attribute.
HasPath(r, i, ev, path) == \E k \in Pos(r, i, ev) : log[k].d = {path}

\* The markers of the responses received so far.
MarkerIds == UNION {{<<r, i>> : i \in 1..Len(resp[r])} : r \in Resps}

\* The outcomes that end a marker.
TerminalEvents ==
    {"htmx:afterServerCommand", "cancel", "redirect", "reload",
     "htmx:serverCommandError"}

Terminal(r, i) == EventsOf(r, i) \cap TerminalEvents # {}

\* The swap collaborator was invoked for marker i of response r.
SwapInvoked(r, i) ==
    /\ Has(r, i, "htmx:beforeSwap")
    /\ ~Has(r, i, "cancelSwap")
    /\ ~Has(r, i, "shouldSwapFalse")

\* The loop of response r has moved past marker i, or is about to.
MovedPast(r, i) ==
    i < Len(resp[r]) => \/ pc[r] = "finished" /\ idx[r] = i
                        \/ Has(r, i + 1, "htmx:beforeServerCommand")

\* Nothing is left to run: no continuation, no timer, no callback, no
\* fetch, no response to come.
Quiescent ==
    /\ NoMicrotask
    /\ fetches = {}
    /\ \A r \in Resps : /\ pc[r] # "idle"
                        /\ swp[r] \notin {"delay", "transition", "settling"}

\* ---------------------------------------------------------------------
\* Claims
\* ---------------------------------------------------------------------

\* C1: within one response the pre-command event of marker n+1 is fired
\* only after marker n has reached a terminal outcome (post-command event,
\* cancelled, redirect / refresh, error reported), also when marker n was
\* suspended on a swap delay or a settle delay.
C1_Sequential ==
    \A id \in MarkerIds :
        \A k \in Pos(id[1], id[2], "htmx:beforeServerCommand") :
            id[2] > 1 =>
                /\ \E e \in TerminalEvents : Before(id[1], id[2] - 1, e, k)
                /\ Before(id[1], id[2] - 1, "htmx:beforeServerCommand", k)

\* Marker 2 started after marker 1 went through a swap delay and a settle
\* delay.
C1_Witness ==
    /\ Len(resp[1]) >= 2
    /\ resp[1][1].swapDelay > 0
    /\ resp[1][1].settleDelay > 0
    /\ Has(1, 1, "settle")
    /\ Has(1, 2, "htmx:beforeServerCommand")

\* C2 (as claimed): when marker n carries location, its navigation fetch
\* has completed and the path has been pushed before marker n fires its
\* post-command event and before marker n+1 starts.
C2_LocationAwaited ==
    \A id \in MarkerIds :
        Has(id[1], id[2], "fetch") =>
            /\ \A k \in Pos(id[1], id[2], "htmx:afterServerCommand") :
                   Before(id[1], id[2], "fetchDone", k)
            /\ \A k \in Pos(id[1], id[2] + 1, "htmx:beforeServerCommand") :
                   Before(id[1], id[2], "fetchDone", k)

\* C3 (as claimed): once nothing is left to run, every marker in whose
\* pipeline an exception was raised has reported exactly one
\* htmx:serverCommandError and every marker after it has been started.
C3_ErrorIsolation ==
    Quiescent =>
        \A id \in MarkerIds :
            Has(id[1], id[2], "throw") =>
                /\ Cardinality(Pos(id[1], id[2], "htmx:serverCommandError")) = 1
                /\ \A j \in (id[2] + 1)..Len(resp[id[1]]) :
                       Has(id[1], j, "htmx:beforeServerCommand")

\* C4 (as claimed): once nothing is left to run, every marker of every
\* response has been started and has reached a terminal outcome, also
\* when a swap has thrown.
C4_Progress ==
    Quiescent =>
        \A id \in MarkerIds :
            /\ Has(id[1], id[2], "htmx:beforeServerCommand")
            /\ Terminal(id[1], id[2])

\* C5: a marker whose pre-command event was cancelled does nothing else
\* (no validation error, swap, trigger, navigation, history mutation,
\* post-command or error event), and the loop goes on to the next marker.
C5_Cancellation ==
    \A id \in MarkerIds :
        Has(id[1], id[2], "cancel") =>
            /\ EventsOf(id[1], id[2]) = {"htmx:beforeServerCommand", "cancel"}
            /\ MovedPast(id[1], id[2])

\* A cancelled marker that carried a target and triggers, followed by a
\* marker that was started.
C5_Witness ==
    /\ Len(resp[1]) >= 2
    /\ Has(1, 1, "cancel")
    /\ {"target", "trigger-after-swap"} \subseteq resp[1][1].attrs
    /\ Has(1, 2, "htmx:beforeServerCommand")

\* The place of each step in the claimed order of one marker's pipeline.
Rank(e) ==
    CASE e.ev = "htmx:afterSwap" -> 1
      [] e.ev = "trigger-after-swap" -> 2
      [] e.ev = "settle" -> 3
      [] e.ev = "trigger-after-settle" -> 4
      [] e.ev = "trigger" -> 5
      [] e.ev = "fetch" -> 6
      [] e.ev = "redirect" -> 7
      [] e.ev = "reload" -> 8
      [] e.ev = "push" /\ e.d = {"/push-url"} -> 9
      [] e.ev = "replace" -> 10
      [] e.ev = "htmx:afterServerCommand" -> 11
      [] OTHER -> 0

\* C6 (as claimed): the steps of one marker are performed in the order
\* post-swap event, trigger-after-swap, settle, trigger-after-settle,
\* trigger, location, redirect, refresh, push-url, replace-url,
\* post-command event.
C6_PipelineOrder ==
    \A k1, k2 \in 1..Len(log) :
        /\ k1 < k2
        /\ log[k1].r = log[k2].r
        /\ log[k1].i = log[k2].i
        /\ Rank(log[k1]) > 0
        /\ Rank(log[k2]) > 0
        => Rank(log[k1]) < Rank(log[k2])

\* C7 (as claimed): trigger-after-swap of a marker with a swap job is
\* dispatched after the DOM mutation and before the settle phase of that
\* swap has completed.
C7_AfterSwapBeforeSettle ==
    \A id \in MarkerIds :
        \A k \in Pos(id[1], id[2], "trigger-after-swap") :
            SwapInvoked(id[1], id[2]) =>
                /\ Before(id[1], id[2], "swapApplied", k)
                /\ ~Before(id[1], id[2], "settle", k)

\* C8: trigger-after-settle of a marker whose swap was invoked is
\* dispatched only after the settle phase of that swap has completed.
C8_AfterSettle ==
    \A id \in MarkerIds :
        \A k \in Pos(id[1], id[2], "trigger-after-settle") :
            SwapInvoked(id[1], id[2]) =>
                /\ Before(id[1], id[2], "swapApplied", k)
                /\ Before(id[1], id[2], "settle", k)

\* trigger-after-settle dispatched for a swap with a settle delay inside a
\* view transition.
C8_Witness ==
    /\ Len(resp[1]) >= 1
    /\ resp[1][1].settleDelay > 0
    /\ resp[1][1].transition
    /\ Has(1, 1, "trigger-after-settle")

\* C9: a marker with redirect, or with refresh other than "false", never
\* performs push-url or replace-url and never fires the post-command
\* event; once it has stopped, the loop goes on to the next marker.
C9_RedirectStops ==
    \A id \in MarkerIds :
        LET m == resp[id[1]][id[2]]
        IN  has(m, "redirect") \/ (has(m, "refresh") /\ m.refresh # "false") =>
                /\ ~HasPath(id[1], id[2], "push", "/push-url")
                /\ ~Has(id[1], id[2], "replace")
                /\ ~Has(id[1], id[2], "htmx:afterServerCommand")
                /\ Has(id[1], id[2], "redirect") \/ Has(id[1], id[2], "reload")
                       => MovedPast(id[1], id[2])

\* A refresh marker carrying push-url and replace-url reloaded, and the
\* marker after it, a redirect, was processed.
C9_Witness ==
    /\ Len(resp[1]) >= 2
    /\ Has(1, 1, "reload")
    /\ {"push-url", "replace-url"} \subseteq resp[1][1].attrs
    /\ Has(1, 2, "redirect")

\* The effects a marker that failed validation must not have.
SideEffects ==
    {"htmx:targetError", "htmx:beforeSwap", "swapApplied", "settle",
     "htmx:afterSwap", "trigger-after-swap", "trigger-after-settle",
     "trigger", "save", "fetch", "redirect", "reload", "push", "replace",
     "htmx:afterServerCommand"}

\* A marker has been left behind by the loop.
Left(r, i) == idx[r] > i \/ (idx[r] = i /\ pc[r] \in {"finished", "done"})

\* C10 (as claimed): every marker without any enumerated attribute fails
\* validation, reported by the command-error event, and has no side
\* effect.
C10_EmptyMarkerFails ==
    \A id \in MarkerIds :
        /\ resp[id[1]][id[2]].attrs \cap VALID_COMMAND_ATTRIBUTES = {}
        /\ Left(id[1], id[2])
        => /\ Has(id[1], id[2], "htmx:serverCommandError")
           /\ EventsOf(id[1], id[2]) \cap SideEffects = {}

\* C10 (amended): every marker without any enumerated attribute whose
\* pre-command event was not cancelled fails validation: apart from the
\* pre-command event it emits the command-error event, once, carrying the
\* no-command-attributes error, and nothing else.
C10_EmptyMarkerFailsUnlessCancelled ==
    \A id \in MarkerIds :
        /\ resp[id[1]][id[2]].attrs \cap VALID_COMMAND_ATTRIBUTES = {}
        /\ Has(id[1], id[2], "htmx:beforeServerCommand")
        /\ ~Has(id[1], id[2], "cancel")
        => /\ EventsOf(id[1], id[2]) =
                {"htmx:beforeServerCommand", "throw", "htmx:serverCommandError"}
           /\ Cardinality(Pos(id[1], id[2], "htmx:serverCommandError")) = 1
           /\ \A k \in Pos(id[1], id[2], "htmx:serverCommandError") :
                  log[k].d = {<<"no-command-attributes">>}

\* A marker with only an unknown attribute, second in its response, has
\* reported its error.
C10_Witness ==
    /\ Len(resp[1]) >= 2
    /\ resp[1][2].attrs = {"foo"}
    /\ Has(1, 2, "htmx:serverCommandError")

\* The marker was started and its pre-command event was not cancelled.
Validated(r, i) ==
    /\ Has(r, i, "htmx:beforeServerCommand")
    /\ ~Has(r, i, "cancel")

\* The effects of a swap job.
SwapEffects == {"htmx:beforeSwap", "swapApplied", "settle", "htmx:swapError"}

\* C11 (as claimed): every marker with swap or select and no target fails
\* validation: htmx:serverCommandError is fired for it and no swap job is
\* built or run.
C11_SwapNeedsTarget ==
    \A id \in MarkerIds :
        LET m == resp[id[1]][id[2]]
        IN  /\ (has(m, "swap") \/ has(m, "select")) /\ ~has(m, "target")
            /\ Left(id[1], id[2])
            => /\ Has(id[1], id[2], "htmx:serverCommandError")
               /\ EventsOf(id[1], id[2]) \cap SwapEffects = {}

\* C11 (amended): every marker with swap or select and no target whose
\* pre-command event was not cancelled fails validation: one
\* htmx:serverCommandError is fired for it, carrying the requires-target
\* error, and no swap job is built or run.
C11_SwapNeedsTargetUnlessCancelled ==
    \A id \in MarkerIds :
        LET m == resp[id[1]][id[2]]
        IN  /\ (has(m, "swap") \/ has(m, "select")) /\ ~has(m, "target")
            /\ Validated(id[1], id[2])
            => /\ Cardinality(Pos(id[1], id[2], "htmx:serverCommandError")) = 1
               /\ \A k \in Pos(id[1], id[2], "htmx:serverCommandError") :
                      <<"requires-target">> \in log[k].d
               /\ EventsOf(id[1], id[2]) \cap SwapEffects = {}

\* A marker with select and no target has reported its error.
C11_Witness ==
    /\ Len(resp[1]) >= 1
    /\ resp[1][1].attrs = {"select", "trigger"}
    /\ Has(1, 1, "htmx:serverCommandError")

\* Every violation of the grammar by marker m.
Violations(m) ==
    (IF m.attrs \cap VALID_COMMAND_ATTRIBUTES = {}
     THEN {<<"no-command-attributes">>} ELSE {})
    \cup {<<"invalid-attribute", a>> : a \in m.attrs \ VALID_COMMAND_ATTRIBUTES}
    \cup (IF ({"swap", "select"} \cap m.attrs # {}) /\ "target" \notin m.attrs
          THEN {<<"requires-target">>} ELSE {})

\* C12 (as claimed): the error reported for a marker that fails validation
\* lists every violation of that marker: one item per attribute outside
\* the grammar, the swap / select without target violation, and the
\* no-enumerated-attribute violation.
C12_AllViolationsReported ==
    \A id \in MarkerIds :
        \A k \in Pos(id[1], id[2], "htmx:serverCommandError") :
            Violations(resp[id[1]][id[2]]) # {} =>
                log[k].d = Violations(resp[id[1]][id[2]])

\* C13 (as claimed): every marker with an attribute outside the grammar
\* fails validation: a command-error event is fired and nothing else is
\* done for it.
C13_UnknownAttributeFails ==
    \A id \in MarkerIds :
        /\ resp[id[1]][id[2]].attrs \ VALID_COMMAND_ATTRIBUTES # {}
        /\ Left(id[1], id[2])
        => /\ Has(id[1], id[2], "htmx:serverCommandError")
           /\ EventsOf(id[1], id[2]) \cap SideEffects = {}

\* C13 (amended): every marker with an attribute outside the grammar
\* whose pre-command event was not cancelled fails validation: one
\* command-error event is fired and no DOM mutation, trigger, navigation
\* or history action is done for it, also when it carries a target that
\* resolves.
C13_UnknownAttributeFailsUnlessCancelled ==
    \A id \in MarkerIds :
        /\ resp[id[1]][id[2]].attrs \ VALID_COMMAND_ATTRIBUTES # {}
        /\ Validated(id[1], id[2])
        => /\ EventsOf(id[1], id[2]) =
                {"htmx:beforeServerCommand", "throw", "htmx:serverCommandError"}
           /\ Cardinality(Pos(id[1], id[2], "htmx:serverCommandError")) = 1
           /\ dom # <<id[1], id[2]>>

\* A marker with an unknown attribute, a target that resolves and a
\* trigger has reported its error.
C13_Witness ==
    /\ Len(resp[1]) >= 1
    /\ resp[1][1].attrs = {"foo", "target", "trigger"}
    /\ resp[1][1].target = "#t"
    /\ Has(1, 1, "htmx:serverCommandError")

\* The step of the pipeline each attribute stands for.
StepOf(a) ==
    CASE a = "location" -> "fetch"
      [] a = "push-url" -> "push"
      [] a = "replace-url" -> "replace"
      [] OTHER -> a

NoSwap(r, i) == ~SwapInvoked(r, i)

\* C18 (as claimed): a marker without swap job fires no post-swap
\* notification and dispatches neither trigger-after-swap nor
\* trigger-after-settle.
C18_PhasesSkipped ==
    \A id \in MarkerIds :
        Validated(id[1], id[2]) /\ NoSwap(id[1], id[2]) =>
            EventsOf(id[1], id[2]) \cap
                {"htmx:afterSwap", "trigger-after-swap", "trigger-after-settle"} = {}

\* C18 (amended): a marker without swap job (no target, target
\* unresolved, swap stopped by the pre-swap listener) that passed
\* validation has nothing to wait for: once it has finished, its post-swap
\* notification has been fired and its trigger-after-swap and
\* trigger-after-settle have been dispatched when present; no DOM mutation
\* and no settle was done for it.
C18_PhasesRunWithoutSwap ==
    \A id \in MarkerIds :
        LET m == resp[id[1]][id[2]]
        IN  /\ Validated(id[1], id[2])
            /\ NoSwap(id[1], id[2])
            /\ ~Has(id[1], id[2], "throw")
            /\ Left(id[1], id[2])
            => /\ Has(id[1], id[2], "htmx:afterSwap")
               /\ \A a \in {"trigger-after-swap", "trigger-after-settle"} :
                      a \in m.attrs => Has(id[1], id[2], a)
               /\ ~Has(id[1], id[2], "swapApplied")
               /\ ~Has(id[1], id[2], "settle")

\* A marker without target has dispatched both of its timed triggers.
C18_Witness ==
    /\ Len(resp[1]) >= 1
    /\ resp[1][1].attrs = {"trigger-after-swap", "trigger-after-settle"}
    /\ Has(1, 1, "trigger-after-swap")
    /\ Has(1, 1, "trigger-after-settle")

\* transformResponse has returned for response r.
Returned(r) == Has(r, 0, "return")

\* The markers of fragment f that are children of the fragment.
TopLevelMarkers(f) == SelectSeq(f, LAMBDA n : n.kind = "htmx" /\ n.parent = 0)

\* C15: the markers processed for a response are its top-level markers,
\* in document order: everything done is done for one of them, none has
\* more than one pre-command event, and when the loop is over each has had
\* exactly one, so that their number is the number of top-level markers;
\* nothing is done for an <htmx> element at a lower depth.
C15_NestedNeverExecuted ==
    \A r \in Resps :
        Returned(r) =>
            LET top == TopLevelMarkers(frag[r])
            IN  /\ resp[r] = [j \in 1..Len(top) |-> top[j].m]
                /\ \A k \in 1..Len(log) :
                       log[k].r = r => log[k].i \in 0..Len(top)
                /\ \A i \in 1..Len(top) :
                       Cardinality(Pos(r, i, "htmx:beforeServerCommand")) <= 1
                /\ pc[r] = "done" =>
                       Cardinality({k \in 1..Len(log) :
                                       /\ log[k].r = r
                                       /\ log[k].ev = "htmx:beforeServerCommand"})
                           = Len(top)

\* A response with <htmx> elements two and three levels deep has been
\* processed to its end.
C15_Witness ==
    /\ pc[1] = "done"
    /\ Len(resp[1]) = 2
    /\ \E k \in 1..Len(frag[1]) :
           /\ frag[1][k].kind = "htmx"
           /\ frag[1][k].parent # 0
           /\ frag[1][frag[1][k].parent].kind = "htmx"

\* C16: what transformResponse returned holds no <htmx> element, top-level
\* or nested, and no node below one, whatever became of the commands.
C16_RemainderWithoutMarkers ==
    \A r \in Resps :
        Returned(r) =>
            \A j \in 1..Len(rem[r].nodes) :
                LET k == rem[r].nodes[j]
                IN  /\ frag[r][k].kind # "htmx"
                    /\ frag[r][k].parent # 0 =>
                           \E h \in 1..Len(rem[r].nodes) :
                               rem[r].nodes[h] = frag[r][k].parent

\* A response with an <htmx> element inside another element and a
\* top-level marker that failed has returned a remainder.
C16_Witness ==
    /\ Returned(1)
    /\ rem[1].nodes # << >>
    /\ Has(1, 1, "htmx:serverCommandError")
    /\ \E k \in 1..Len(frag[1]) :
           /\ frag[1][k].kind = "htmx"
           /\ frag[1][k].parent # 0
           /\ frag[1][frag[1][k].parent].kind = "div"

\* C17: for a response text that is empty or holds no <htmx> element,
\* transformResponse returns the text itself and does nothing else: no
\* event, no swap, no marker is started.
C17_FastPath ==
    \A r \in Resps :
        /\ Returned(r)
        /\ \A k \in 1..Len(frag[r]) : frag[r][k].kind # "htmx"
        => /\ rem[r] = [raw |-> TRUE, nodes |-> [k \in 1..Len(frag[r]) |-> k]]
           /\ {k \in 1..Len(log) : log[k].r = r} = Pos(r, 0, "return")
           /\ Cardinality(Pos(r, 0, "return")) = 1
           /\ resp[r] = << >>
           /\ pc[r] = "done"
           /\ idx[r] = 0
           /\ swp[r] = "none"

\* A text with content and without marker has been returned.
C17_Witness ==
    /\ Returned(1)
    /\ Len(frag[1]) = 3
    /\ \A k \in 1..Len(frag[1]) : frag[1][k].kind # "htmx"

\* The text reads as names separated by commas, each with spaces around
\* it at most; q is what the reader expects next.
RECURSIVE NameList(_, _)
NameList(text, q) ==
    IF text = << >> THEN q \in {"name", "after"}
    ELSE LET c == Head(text)
             rest == Tail(text)
         IN  CASE q = "start" ->
                    IF c = " " THEN NameList(rest, "start")
                    ELSE c # "," /\ NameList(rest, "name")
               [] q = "name" ->
                    IF c = " " THEN NameList(rest, "after")
                    ELSE NameList(rest, IF c = "," THEN "start" ELSE "name")
               [] OTHER ->
                    IF c = " " THEN NameList(rest, "after")
                    ELSE c = "," /\ NameList(rest, "start")

Without(text, c) == SelectSeq(text, LAMBDA x : x # c)

Count(text, c) == Len(SelectSeq(text, LAMBDA x : x = c))

\* The names of the events, with commas between them.
RECURSIVE Joined(_)
Joined(events) ==
    IF events = << >> THEN << >>
    ELSE events[1].name
         \o (IF Len(events) = 1 THEN << >> ELSE <<",">> \o Joined(Tail(events)))

\* C19 (as claimed): for a trigger value that is a list of n names
\* separated by commas, handleTriggerAttribute fires n events, named by
\* the trimmed names from left to right, each at the document root and
\* without detail.
C19_CommaList ==
    /\ trigger.handled
    /\ trigger.value.form = "text"
    /\ NameList(trigger.value.text, "start")
    => /\ Len(fired) = Count(trigger.value.text, ",") + 1
       /\ Joined(fired) = Without(trigger.value.text, " ")
       /\ \A j \in 1..Len(fired) :
              /\ fired[j].name # << >>
              /\ \A k \in 1..Len(fired[j].name) : fired[j].name[k] \in NameTokens
              /\ fired[j].target = "body"
              /\ fired[j].detail = NoDetail

\* C20 (as claimed): for a trigger value that is a JSON object, one event
\* is fired per key; for a detail object with a target field it is fired
\* at the element the selector resolves to, at the document root when it
\* resolves to none, and the detail delivered has no target field; for
\* any other detail it is fired at the document root with the detail as
\* given.
C20_JsonObject ==
    trigger.handled /\ trigger.value.form = "json" =>
        /\ Len(fired) = Len(trigger.value.pairs)
        /\ \A j \in 1..Len(trigger.value.pairs) :
               LET key == trigger.value.pairs[j].key
                   detail == trigger.value.pairs[j].detail
                   es == {k \in 1..Len(fired) : fired[k].name = <<key>>}
               IN  /\ Cardinality(es) = 1
                   /\ \A k \in es :
                          IF detail.kind = "object" /\ detail.target # NoField
                          THEN /\ fired[k].target =
                                     (IF detail.target = "#t" THEN "t" ELSE "body")
                               /\ fired[k].detail.target = NoField
                          ELSE /\ fired[k].target = "body"
                               /\ fired[k].detail = detail

\* C21: the page is saved just before the navigation fetch of a location
\* attribute is issued, and the location path is pushed only after that
\* fetch has completed: never while it is in flight, never when it failed.
C21_LocationOrder ==
    \A id \in MarkerIds :
        /\ \A k \in Pos(id[1], id[2], "fetch") :
               /\ k > 1
               /\ log[k - 1] = Entry(id[1], id[2], "save", {})
        /\ \A k \in Pos(id[1], id[2], "push") :
               log[k].d = {"/location"} =>
                   /\ k > 1
                   /\ log[k - 1] = Entry(id[1], id[2], "fetchDone", {})
                   /\ Before(id[1], id[2], "fetch", k - 1)
        /\ <<id[1], id[2]>> \in fetches \/ Has(id[1], id[2], "fetchFailed")
               => ~HasPath(id[1], id[2], "push", "/location")

\* The path of a location attribute has been pushed.
C21_Witness ==
    /\ Len(resp[1]) >= 1
    /\ resp[1][1].attrs = {"location"}
    /\ HasPath(1, 1, "push", "/location")

\* C22 (as claimed): a location value that is not JSON and a navigation
\* fetch that fails are both reported by htmx:serverCommandError for the
\* marker.
C22_NavigationFailureReported ==
    \A id \in MarkerIds :
        LET m == resp[id[1]][id[2]]
        IN  /\ "location" \in m.attrs /\ m.location = "badjson"
               /\ Has(id[1], id[2], "throw")
               => Has(id[1], id[2], "htmx:serverCommandError")
            /\ Has(id[1], id[2], "fetchFailed")
               => Has(id[1], id[2], "htmx:serverCommandError")

\* C23: each history mutation of a push-url or replace-url attribute comes
\* right after a save of the page; a marker with both does save, push,
\* save, replace.
C23_SaveBeforeHistory ==
    \A id \in MarkerIds :
        /\ \A k \in Pos(id[1], id[2], "push") \cup Pos(id[1], id[2], "replace") :
               log[k].d # {"/location"} =>
                   /\ k > 1
                   /\ log[k - 1] = Entry(id[1], id[2], "save", {})
        /\ \A k \in Pos(id[1], id[2], "replace") :
               "push-url" \in resp[id[1]][id[2]].attrs =>
                   /\ k > 3
                   /\ log[k - 2] = Entry(id[1], id[2], "push", {"/push-url"})
                   /\ log[k - 3] = Entry(id[1], id[2], "save", {})

\* A marker with push-url and replace-url has done both.
C23_Witness ==
    /\ Len(resp[1]) >= 1
    /\ resp[1][1].attrs = {"push-url", "replace-url"}
    /\ Has(1, 1, "replace")

\* The marker ran to its end: validated, and nothing was thrown.
Succeeded(r, i) ==
    /\ Left(r, i)
    /\ Validated(r, i)
    /\ ~Has(r, i, "throw")
    /\ ~Has(r, i, "htmx:serverCommandError")

OnceEvents ==
    {"htmx:beforeServerCommand", "htmx:targetError", "htmx:beforeSwap",
     "swapApplied", "settle", "htmx:swapError", "htmx:afterSwap",
     "trigger-after-swap", "trigger-after-settle", "trigger", "fetch",
     "redirect", "reload", "replace", "htmx:afterServerCommand",
     "htmx:serverCommandError"}

\* C27: for every top-level marker the pre-command event fires once (never
\* twice, and once for each marker when the loop is over); the swap, each
\* trigger, each navigation and history action, the post-command event and
\* the error event happen at most once; after an error nothing more is
\* done for the marker.
C27_ExactlyOnce ==
    \A id \in MarkerIds :
        /\ \A ev \in OnceEvents : Cardinality(Pos(id[1], id[2], ev)) <= 1
        /\ \A path \in {"/push-url", "/location"} :
               Cardinality({k \in Pos(id[1], id[2], "push") : log[k].d = {path}}) <= 1
        /\ idx[id[1]] >= id[2] \/ pc[id[1]] = "done"
               => Cardinality(Pos(id[1], id[2], "htmx:beforeServerCommand")) = 1
        /\ \A k \in Pos(id[1], id[2], "htmx:serverCommandError") :
               \A j \in k + 1..Len(log) :
                   ~(log[j].r = id[1] /\ log[j].i = id[2])

\* A marker whose swap was rejected reported its error and the marker
\* after it dispatched its trigger.
C27_Witness ==
    /\ Len(resp[1]) = 2
    /\ Has(1, 1, "htmx:swapError")
    /\ Has(1, 1, "htmx:serverCommandError")
    /\ Has(1, 2, "trigger")

\* C28: a marker with refresh="false" that reaches the refresh step does
\* not reload and goes on: push-url and replace-url, when present, are
\* performed and the post-command event is fired.
C28_RefreshFalse ==
    \A id \in MarkerIds :
        LET m == resp[id[1]][id[2]]
        IN  "refresh" \in m.attrs /\ m.refresh = "false" =>
                /\ ~Has(id[1], id[2], "reload")
                /\ Succeeded(id[1], id[2]) /\ "redirect" \notin m.attrs =>
                       /\ "push-url" \in m.attrs
                              => HasPath(id[1], id[2], "push", "/push-url")
                       /\ "replace-url" \in m.attrs => Has(id[1], id[2], "replace")
                       /\ Has(id[1], id[2], "htmx:afterServerCommand")

\* A marker with refresh="false", push-url and replace-url has fired its
\* post-command event.
C28_Witness ==
    /\ Len(resp[1]) >= 1
    /\ resp[1][1].attrs = {"refresh", "push-url", "replace-url"}
    /\ resp[1][1].refresh = "false"
    /\ Has(1, 1, "replace")
    /\ Has(1, 1, "htmx:afterServerCommand")

\* What a marker does only after a timer, a view transition, a fetch or
\* one of its awaits.
Deferred(r, e) ==
    \/ e.ev \in {"htmx:afterSwap", "trigger-after-swap", "trigger-after-settle",
                 "trigger", "fetch", "fetchDone", "fetchFailed", "redirect",
                 "reload", "push", "replace", "htmx:afterServerCommand"}
    \/ /\ e.ev \in {"swapApplied", "settle"}
       /\ resp[r][e.i].swapDelay > 0 \/ resp[r][e.i].transition
    \/ e.ev = "settle" /\ resp[r][e.i].settleDelay > 0
    \/ e.i > 1

\* C29: transformResponse has returned as soon as the first marker has
\* reached its first await, whatever swap delay, settle delay, view
\* transition or fetch is pending; whatever a marker does after such a
\* point, and every marker but the first, comes after the return.
C29_NeverBlocks ==
    \A r \in Resps :
        pc[r] \notin {"idle", "off"} =>
            /\ Cardinality(Pos(r, 0, "return")) = 1
            /\ \A k \in 1..Len(log) :
                   log[k].r = r /\ log[k].i >= 1 /\ Deferred(r, log[k])
                       => \E j \in Pos(r, 0, "return") : j < k

\* transformResponse has returned, the swap delay of the first marker is
\* still running and a second marker is waiting.
C29_Witness ==
    /\ Returned(1)
    /\ swp[1] = "delay"
    /\ pc[1] = "awaitSwap"
    /\ Len(resp[1]) = 2

\* C30: when the listener of htmx:beforeSwap cancels the event or sets
\* shouldSwap to false, no swap is done and the target keeps its content;
\* no error is reported, and once the marker has finished, the post-swap
\* notification, its triggers, location fetch, history steps and
\* post-command event have been performed.
C30_SwapCancelled ==
    \A id \in MarkerIds :
        LET m == resp[id[1]][id[2]]
        IN  Has(id[1], id[2], "cancelSwap") \/ Has(id[1], id[2], "shouldSwapFalse") =>
                /\ EventsOf(id[1], id[2]) \cap
                       {"swapApplied", "settle", "htmx:swapError", "throw",
                        "htmx:serverCommandError"} = {}
                /\ dom # <<id[1], id[2]>>
                /\ Left(id[1], id[2]) =>
                       /\ \A a \in m.attrs \ {"target", "swap", "select"} :
                              Has(id[1], id[2], StepOf(a))
                       /\ Has(id[1], id[2], "htmx:afterSwap")
                       /\ Has(id[1], id[2], "htmx:afterServerCommand")

\* A marker with target, trigger, location and push-url whose listener
\* set shouldSwap to false has fired its post-command event.
C30_Witness ==
    /\ Len(resp[1]) >= 1
    /\ resp[1][1].attrs = {"target", "trigger", "location", "push-url"}
    /\ Has(1, 1, "shouldSwapFalse")
    /\ Has(1, 1, "htmx:afterServerCommand")

\* C24 (as claimed): after any sequence of push-url, replace-url and
\* completed location steps, currentPathForHistory is the URL given to
\* the last of them; with history disabled window.history is never called.
C24_CurrentPath ==
    hist.acts # << >> =>
        /\ hist.currentPathForHistory = hist.acts[Len(hist.acts)].url
        /\ ~hist.config.historyEnabled =>
               hist.calls = << >> /\ hist.entries = <<StartUrl>>

\* C24 (amended): after any sequence of push-url, replace-url and
\* completed location steps, currentPathForHistory is the URL given to
\* the last of them, without its cache-buster parameter when that step
\* pushed and getCacheBusterParam is on; with history disabled
\* window.history is never called.
C24_CurrentPathLessCacheBuster ==
    hist.acts # << >> =>
        LET last == hist.acts[Len(hist.acts)]
        IN  /\ hist.currentPathForHistory =
                  (IF last.step # "replace-url" /\ hist.config.getCacheBusterParam
                   THEN Url(last.url.path, FALSE) ELSE last.url)
            /\ ~hist.config.historyEnabled =>
                   hist.calls = << >> /\ hist.entries = <<StartUrl>>

\* With history disabled, a push-url, a location and a replace-url step
\* were performed, the last with another URL than the one before.
C24_Witness ==
    /\ ~hist.config.historyEnabled
    /\ Len(hist.acts) = 3
    /\ {hist.acts[k].step : k \in 1..3} = HistorySteps
    /\ hist.acts[2].url # hist.acts[3].url
    /\ hist.currentPathForHistory = hist.acts[3].url

\* The content of the target according to the log: the payload swapped
\* in last, or the original content.
LastApplied ==
    LET applied == {k \in 1..Len(log) : log[k].ev = "swapApplied"}
    IN  IF applied = {} THEN OriginalContent
        ELSE LET k == CHOOSE j \in applied : \A q \in applied : q <= j
             IN  <<log[k].r, log[k].i>>

\* What a marker does after its first await.
LaterSteps ==
    {"htmx:afterSwap", "trigger-after-swap", "settle", "trigger-after-settle",
     "trigger", "save", "fetch", "fetchDone", "push", "replace", "redirect",
     "reload", "htmx:afterServerCommand"}

\* C31: for a marker whose swap has a swap delay, the target keeps its
\* content while the delay timer is pending, and the post-swap
\* notification, trigger-after-swap and every later step of the marker
\* come only after the DOM mutation of the swap was applied.
C31_SwapDelay ==
    \A id \in MarkerIds :
        LET r == id[1]
            i == id[2]
        IN  (resp[r][i].swapDelay > 0 /\ SwapInvoked(r, i)) =>
                /\ (swp[r] = "delay" /\ idx[r] = i) =>
                        /\ ~Has(r, i, "swapApplied")
                        /\ dom = LastApplied
                        /\ dom # <<r, i>>
                /\ \A k \in 1..Len(log) :
                        (log[k].r = r /\ log[k].i = i /\ log[k].ev \in LaterSteps)
                        => Before(r, i, "swapApplied", k)

\* A marker with a swap delay has gone through its whole pipeline.
C31_Witness ==
    /\ Len(resp[1]) >= 1
    /\ resp[1][1].swapDelay > 0
    /\ dom = <<1, 1>>
    /\ Has(1, 1, "trigger-after-swap")
    /\ Has(1, 1, "htmx:afterServerCommand")

\* C33: when transformResponse returns the remainder, the first top-level
\* marker has fired its pre-command event, its validation error (if it
\* has one and was not cancelled) is reported, its DOM mutation is
\* applied when its swap has no swap delay and no view transition, and
\* nothing of a later marker has run.
C33_FirstMarkerBeforeReturn ==
    \A r \in Resps : \A p \in Pos(r, 0, "return") :
        resp[r] # << >> =>
            LET m == resp[r][1]
            IN  /\ Before(r, 1, "htmx:beforeServerCommand", p)
                /\ (~Has(r, 1, "cancel") /\ Violations(m) # {})
                   => Before(r, 1, "htmx:serverCommandError", p)
                /\ (/\ SwapInvoked(r, 1)
                    /\ m.swapDelay = 0
                    /\ ~m.transition
                    /\ ~m.swapThrows)
                   => Before(r, 1, "swapApplied", p)
                /\ \A k \in 1..p : log[k].r = r => log[k].i <= 1

\* The remainder was returned after the first marker swapped, and the
\* second marker has started since.
C33_Witness ==
    /\ Len(resp[1]) = 2
    /\ \E p \in Pos(1, 0, "return") :
            /\ Before(1, 1, "swapApplied", p)
            /\ \E k \in Pos(1, 2, "htmx:beforeServerCommand") : k > p

\* C35 (as claimed): no <htmx> element is in a payload that was swapped
\* into the document, whatever the position of the top-level marker.
C35_NoNestedInDocument ==
    \A r \in Resps :
        (idx[r] >= 1 /\ Has(r, idx[r], "swapApplied")) =>
            \A n \in content[r] : frag[r][n].kind # "htmx"

\* C37 (as claimed): for every valid marker with a target attribute whose
\* pre-command event was not cancelled, exactly one of the two happens:
\* a swap job is built (its pre-swap event is fired) or
\* htmx:targetError is raised.
C37_JobOrTargetError ==
    \A id \in MarkerIds :
        LET m == resp[id[1]][id[2]]
        IN  (/\ "target" \in m.attrs
             /\ Violations(m) = {}
             /\ Validated(id[1], id[2]))
            => (Has(id[1], id[2], "htmx:beforeSwap")
                # Has(id[1], id[2], "htmx:targetError"))

\* C38 (as claimed): a marker whose location value is a JSON object
\* without a path field, once its location step has been reached and the
\* marker is done, has issued no navigation fetch, pushed no history entry
\* and reported an error.
C38_PathRequired ==
    \A id \in MarkerIds :
        LET m == resp[id[1]][id[2]]
        IN  (/\ "location" \in m.attrs
             /\ m.location = "nopath"
             /\ Validated(id[1], id[2])
             /\ Left(id[1], id[2]))
            => /\ ~Has(id[1], id[2], "fetch")
               /\ ~Has(id[1], id[2], "push")
               /\ Has(id[1], id[2], "htmx:serverCommandError")

\* C36 (as claimed): for a trigger value that JSON.parse accepts, no
\* event of the comma-separated fallback (fired without detail) is fired,
\* also when resolving a target selector throws.
C36_OneMode ==
    (/\ trigger.handled
     /\ \/ trigger.value.form = "json"
        \/ JsonLiteral(trim(trigger.value.text)))
    => \A j \in 1..Len(fired) : fired[j].detail # NoDetail

\* C39: with two responses under way, in every interleaving and for each
\* response, the markers start in document order, each at most once, and a
\* marker starts only after the marker before it in the same response has
\* reached a terminal outcome.
C39_PerResponseOrder ==
    \A k \in 1..Len(log) :
        log[k].ev = "htmx:beforeServerCommand" =>
            /\ \A j \in 1..(k - 1) :
                   (log[j].r = log[k].r /\ log[j].ev = "htmx:beforeServerCommand")
                   => log[j].i < log[k].i
            /\ log[k].i > 1 =>
                   \E j \in 1..(k - 1) :
                       /\ log[j].r = log[k].r
                       /\ log[j].i = log[k].i - 1
                       /\ log[j].ev \in TerminalEvents

\* Response 2 arrived and ran both its markers while the first marker of
\* response 1 was suspended; response 1 then went on with its second.
C39_Witness ==
    \E a \in Pos(1, 1, "htmx:beforeServerCommand"),
       b \in Pos(2, 1, "htmx:beforeServerCommand"),
       c \in Pos(2, 2, "htmx:afterServerCommand"),
       e \in Pos(1, 1, "swapApplied"),
       g \in Pos(1, 2, "htmx:beforeServerCommand") :
        a < b /\ b < c /\ c < e /\ e < g

\* C32: while the settle timer of a swap with a settle delay is pending,
\* the payload is in the document and every element of the settle
\* information carries the settling class; when no settle is pending (the
\* settle has completed), no element carries it.
C32_SettlingClass ==
    /\ settle.timer =>
          /\ settle.jobs[settle.i].settleDelay > 0
          /\ Uids(settle.jobs[settle.i].payload) \subseteq Uids(<<settle.doc>>)
          /\ \A k \in 1..Len(settle.info.elts) : settle.info.elts[k] \in settle.settling
    /\ ~settle.timer => settle.settling = {}

\* The second marker's settle timer is pending, with an element added by
\* the first marker's swap among the elements being settled.
C32_Witness ==
    /\ settle.timer
    /\ settle.i = 2
    /\ Len(settle.info.elts) >= 3
    /\ "n1" \in settle.settling
    /\ "m1" \in settle.settling

\* The swap job whose payload holds the node, 0 for a node of the page.
AddedBy(uid) ==
    IF \E i \in 1..Len(settle.jobs) : uid \in Uids(settle.jobs[i].payload)
    THEN CHOOSE i \in 1..Len(settle.jobs) : uid \in Uids(settle.jobs[i].payload)
    ELSE 0

\* C34 (as claimed): each settle task and each htmx:afterSettle for an
\* element a marker's swap added runs during that marker's own settle
\* phase, and once.
C34_SettlePerMarker ==
    \A k \in 1..Len(settle.ran) :
        AddedBy(settle.ran[k].uid) # 0 =>
            /\ settle.ran[k].by = AddedBy(settle.ran[k].uid)
            /\ \A j \in 1..Len(settle.ran) :
                   (j # k /\ settle.ran[j].uid = settle.ran[k].uid)
                   => settle.ran[j].kind # settle.ran[k].kind

\* list is what is left of full after dropping entries from its front.
IsSuffix(list, full) ==
    /\ Len(list) <= Len(full)
    /\ list = SubSeq(full, Len(full) - Len(list) + 1, Len(full))

\* C40: with a positive cache size and accessible storage, after any
\* sequence of saves the cache holds at most historyCacheSize entries, all
\* of different normalized URLs, the URL saved (written) last is its last
\* entry, entries leave oldest first, and a save whose writes fail drops
\* the oldest entries until a write succeeds or nothing is left, after at
\* most as many failed writes as there were entries.
C40_CacheInvariants ==
    (cache.size > 0 /\ cache.access /\ cache.saves > 0) =>
        LET url == [cache.last EXCEPT !.slash = FALSE]
            full == Append(SelectSeq(cache.before, LAMBDA u : u # url), url)
        IN  /\ Len(cache.stored) <= cache.size
            /\ \A j, k \in 1..Len(cache.stored) :
                   j # k => cache.stored[j] # cache.stored[k]
            /\ \A j \in 1..Len(cache.stored) : ~cache.stored[j].slash
            /\ cache.stored # << >> =>
                   cache.stored[Len(cache.stored)]
                   = [cache.written EXCEPT !.slash = FALSE]
            /\ IsSuffix(cache.list, full)
            /\ cache.list # << >> =>
                   /\ cache.stored = cache.list
                   /\ cache.written = cache.last
                   /\ Len(cache.list) = Len(full) - cache.failed
                      \/ Len(cache.list) = cache.size - cache.failed
            /\ cache.list = << >> =>
                   /\ cache.stored = cache.before
                   /\ cache.failed >= 1
            /\ cache.failed <= Len(full)

\* A full cache took a new URL: the oldest entry left for the size, the
\* next one for a failed write.
C40_Witness ==
    /\ cache.size = 2
    /\ Len(cache.before) = 2
    /\ cache.failed = 1
    /\ Len(cache.stored) = 1
    /\ cache.stored[1] = cache.last
    /\ cache.last \notin {cache.before[1], cache.before[2]}
====
